---- MODULE Spec2Model ----
(***************************************************************************)
(* Signal generation and portfolio simulation of the trading system:       *)
(*   backtesting/engine.py      BacktestEngine.run_backtest                 *)
(*   strategies/mean_reversion.py  MeanReversionStrategy                    *)
(*   strategies/momentum.py     MomentumStrategy                            *)
(*                                                                         *)
(* A pandas Series is a sequence indexed 1..n (row t of the model is row    *)
(* t-1 of the frame); a DataFrame is a function from column names to        *)
(* series.  Every statement of a method is one action; pc is the position   *)
(* in the method.  The methods are straight-line code over immutable        *)
(* inputs, so each specification draws the inputs in its initial state and  *)
(* then runs the statements in order.                                       *)
(*                                                                         *)
(* Numbers are exact: money and prices are integers, a rate or a ratio is   *)
(* a fraction [n, d] (d = 0: the float is NaN when n = 0, infinite          *)
(* otherwise), a z-score is sgn * sqrt(n / d).                              *)
(***************************************************************************)
EXTENDS Integers, Sequences, FiniteSets, TLC

VARIABLES
    pc,         \* the statement the running method is at
    strategy,   \* the fields of the strategy object (self.lookback, ...)
    engine,     \* the fields of the BacktestEngine (self.initial_capital, ...)
    data,       \* the price table passed in: data['Close']
    signals,    \* the signals DataFrame
    portfolio,  \* the portfolio DataFrame (the ledger)
    locals,     \* the local variables of the running method
    pairs,      \* the list of pairs of the pair scan
    metrics,    \* the value computed by a metrics method
    history,    \* the calls made before on the same objects
    loader      \* the fields of the DataLoader (self.cache)

vars == <<pc, strategy, engine, data, signals, portfolio, locals, pairs, metrics,
          history, loader>>

(***************************************************************************)
(* Bounds of the model.                                                    *)
(***************************************************************************)
\* longest price / position series of a backtest
MaxLen == 4
\* longest stretch of a z-score series after the warm-up
MaxTail == 3

(***************************************************************************)
(* Program constants.                                                      *)
(***************************************************************************)
\* engine.py:7  initial_capital=100000
InitialCapital == 100000
\* engine.py:7  commission=0.001 = 1 / CommissionDen; rates are kept in
\* units of 1 / CommissionDen
CommissionDen == 1000
\* engine.py:21,22,28  the literal 1000 (shares per unit of position)
UnitSize == 1000

\* A DataFrame that has not been built yet.
NoFrame == [index |-> {}]
\* An object that is not part of the run.
NoObject == [none |-> TRUE]

Abs(x) == IF x < 0 THEN -x ELSE x

Index(s) == 1..Len(s)

(***************************************************************************)
(* Series arithmetic (pandas).                                             *)
(***************************************************************************)
\* the first row keeps its own value as its change (diff against an implied 0)
DiffFromZero(s) == [t \in Index(s) |-> IF t = 1 THEN s[1] ELSE s[t] - s[t - 1]]

\* s.diff().fillna(0): the difference to the previous row; the first row has
\* no previous row (NaN), which fillna(0) turns into 0.
DiffFillna0(s) == [t \in Index(s) |-> IF t = 1 THEN 0 ELSE s[t] - s[t - 1]]

RECURSIVE SumTo(_, _)
SumTo(s, t) == IF t = 0 THEN 0 ELSE SumTo(s, t - 1) + s[t]

\* s.cumsum()
CumSum(s) == [t \in Index(s) |-> SumTo(s, t)]

RECURSIVE GCD(_, _)
GCD(a, b) == IF b = 0 THEN a ELSE GCD(b, a % b)

\* the float n / d in lowest terms with d > 0; n / 0 is NaN when n = 0 and
\* +-infinity otherwise
Frac(n, d) ==
    IF d = 0 THEN [n |-> IF n > 0 THEN 1 ELSE IF n < 0 THEN -1 ELSE 0, d |-> 0]
    ELSE LET g == GCD(Abs(n), Abs(d))
             sg == IF d < 0 THEN -1 ELSE 1
         IN  [n |-> sg * (n \div g), d |-> sg * (d \div g)]

\* s.pct_change(): s[t] / s[t-1] - 1, NaN on the first row
PctChange(s) ==
    [t \in Index(s) |-> IF t = 1 THEN Frac(0, 0)
                        ELSE Frac(s[t] - s[t - 1], s[t - 1])]

(***************************************************************************)
(* BacktestEngine.run_backtest, engine.py:12-32.                           *)
(***************************************************************************)
\* 14-15, 18-20: positions and price, on the index of signals
BtFrame ==
    /\ pc = "bt_start"
    /\ portfolio' = [index |-> Index(signals.position),
                     positions |-> signals.position,
                     price |-> data.Close]
    /\ pc' = "bt_holdings"
    /\ UNCHANGED <<strategy, engine, data, signals, locals, pairs, metrics, history, loader>>

\* 21: holdings = positions * price * 1000
Holdings(positions, price) ==
    [t \in Index(positions) |-> positions[t] * price[t] * UnitSize]

BtHoldings ==
    /\ pc = "bt_holdings"
    /\ portfolio' = ("holdings" :> Holdings(portfolio.positions, portfolio.price))
                        @@ portfolio
    /\ pc' = "bt_cash"
    /\ UNCHANGED <<strategy, engine, data, signals, locals, pairs, metrics, history, loader>>

\* cash without .cumsum(): only the position change of the row is paid
CashRowOnly(capital, positions, price) ==
    LET d == DiffFillna0(positions)
    IN  [t \in Index(positions) |-> capital - d[t] * price[t] * UnitSize]

\* 22: cash = initial_capital - (positions.diff().fillna(0) * price * 1000).cumsum()
Cash(capital, positions, price) ==
    LET d == DiffFillna0(positions)
        spent == CumSum([t \in Index(positions) |-> d[t] * price[t] * UnitSize])
    IN  [t \in Index(positions) |-> capital - spent[t]]

BtCash ==
    /\ pc = "bt_cash"
    /\ portfolio' = ("cash" :> Cash(engine.initial_capital, portfolio.positions,
                                    portfolio.price)) @@ portfolio
    /\ pc' = "bt_total"
    /\ UNCHANGED <<strategy, engine, data, signals, locals, pairs, metrics, history, loader>>

\* 23: total = holdings + cash
Total(holdings, cash) == [t \in Index(holdings) |-> holdings[t] + cash[t]]

BtTotal ==
    /\ pc = "bt_total"
    /\ portfolio' = ("total" :> Total(portfolio.holdings, portfolio.cash))
                        @@ portfolio
    /\ pc' = "bt_returns"
    /\ UNCHANGED <<strategy, engine, data, signals, locals, pairs, metrics, history, loader>>

\* 24: returns = total.pct_change()
BtReturns ==
    /\ pc = "bt_returns"
    /\ portfolio' = ("returns" :> PctChange(portfolio.total)) @@ portfolio
    /\ pc' = "bt_trades"
    /\ UNCHANGED <<strategy, engine, data, signals, locals, pairs, metrics, history, loader>>

\* trades without .abs(): sells count negative
TradesSigned(positions) == DiffFillna0(positions)

\* 27: trades = positions.diff().fillna(0).abs()
Trades(positions) ==
    LET d == DiffFillna0(positions)
    IN  [t \in Index(positions) |-> Abs(d[t])]

BtTrades ==
    /\ pc = "bt_trades"
    /\ portfolio' = ("trades" :> Trades(portfolio.positions)) @@ portfolio
    /\ pc' = "bt_commission"
    /\ UNCHANGED <<strategy, engine, data, signals, locals, pairs, metrics, history, loader>>

\* 28: commission = trades * price * 1000 * self.commission
\* (rate is self.commission in units of 1 / CommissionDen; UnitSize is a
\* multiple of CommissionDen, so the quotient is exact)
Commission(trades, price, rate) ==
    [t \in Index(trades) |->
        (trades[t] * price[t] * UnitSize * rate) \div CommissionDen]

BtCommission ==
    /\ pc = "bt_commission"
    /\ portfolio' = ("commission" :> Commission(portfolio.trades, portfolio.price,
                                                engine.commission)) @@ portfolio
    /\ pc' = "bt_net_total"
    /\ UNCHANGED <<strategy, engine, data, signals, locals, pairs, metrics, history, loader>>

\* net_total without .cumsum(): only the commission of the row is deducted
NetTotalRowOnly(total, commission) ==
    [t \in Index(total) |-> total[t] - commission[t]]

\* 29: net_total = total - commission.cumsum()
NetTotal(total, commission) ==
    LET paid == CumSum(commission)
    IN  [t \in Index(total) |-> total[t] - paid[t]]

BtNetTotal ==
    /\ pc = "bt_net_total"
    /\ portfolio' = ("net_total" :> NetTotal(portfolio.total, portfolio.commission))
                        @@ portfolio
    /\ pc' = "bt_net_returns"
    /\ UNCHANGED <<strategy, engine, data, signals, locals, pairs, metrics, history, loader>>

\* 30, 32: net_returns = net_total.pct_change(); return portfolio
BtNetReturns ==
    /\ pc = "bt_net_returns"
    /\ portfolio' = ("net_returns" :> PctChange(portfolio.net_total)) @@ portfolio
    /\ pc' = "bt_done"
    /\ UNCHANGED <<strategy, engine, data, signals, locals, pairs, metrics, history, loader>>

run_backtest ==
    \/ BtFrame
    \/ BtHoldings
    \/ BtCash
    \/ BtTotal
    \/ BtReturns
    \/ BtTrades
    \/ BtCommission
    \/ BtNetTotal
    \/ BtNetReturns

(***************************************************************************)
(* The backtest on its own: any price series with any position series of   *)
(* the same index, every position a defined number (data model of a        *)
(* SignalSeries).                                                          *)
(***************************************************************************)
\* close prices of the price table
Prices == {50, 60}
\* position values of a signal series
Positions == {-1, 0, 1}
\* self.commission, in units of 1 / CommissionDen: 0.001 (the default), 0.002
CommissionRates == {1, 2}

InitBacktest ==
    /\ pc = "bt_start"
    /\ strategy = NoObject
    /\ engine \in [initial_capital : {InitialCapital}, commission : CommissionRates,
                  results : {<<>>}]
    /\ \E n \in 1..MaxLen :
          /\ data \in [Close : [1..n -> Prices]]
          /\ signals \in [position : [1..n -> Positions]]
    /\ portfolio = NoFrame
    /\ locals = NoObject /\ pairs = NoObject /\ metrics = NoObject
    /\ history = NoObject
    /\ loader = NoObject

SpecBacktest == InitBacktest /\ [][run_backtest]_vars

(***************************************************************************)
(* Floats of the signal tables.                                            *)
(***************************************************************************)
\* the float k
F(k) == [n |-> k, d |-> 1]
\* the float NaN
FNaN == [n |-> 0, d |-> 0]

IsNaN(x) == x.d = 0 /\ x.n = 0

\* x > 0 and x < 0 as floats compare: False on NaN
FPositive(x) == ~IsNaN(x) /\ x.n > 0
FNegative(x) == ~IsNaN(x) /\ x.n < 0

\* s.shift(1): every value one row later, NaN on the first row
Shift1(s) == [t \in Index(s) |-> IF t = 1 THEN FNaN ELSE s[t - 1]]

RECURSIVE LastValid(_, _)
\* the last value of s at or before row t that is not NaN (NaN if none)
LastValid(s, t) ==
    IF t = 0 THEN FNaN
    ELSE IF ~IsNaN(s[t]) THEN s[t]
    ELSE LastValid(s, t - 1)

\* s.fillna(method='ffill')
FFill(s) == [t \in Index(s) |-> LastValid(s, t)]

\* s.fillna(0)
Fillna0(s) == [t \in Index(s) |-> IF IsNaN(s[t]) THEN F(0) ELSE s[t]]

\* frame.loc[mask, column] = value
LocAssign(s, mask, value) == [t \in Index(s) |-> IF mask[t] THEN value ELSE s[t]]

(***************************************************************************)
(* Z-scores.  The z-score (x - mean) / std of a window is the quotient of  *)
(* a rational by the square root of a rational; it is kept exactly, as     *)
(*   sgn * sqrt(n / d),  d = 0 for NaN,                                    *)
(* and compared with a threshold by comparing the squares.                 *)
(***************************************************************************)
\* mean_reversion.py:6  entry_zscore=2.0, exit_zscore=0.5: thresholds (and
\* drawn z-scores) are kept in units of 1 / ZDen
ZDen == 2
\* mean_reversion.py:6  lookback=20
DefaultLookback == 20

Sign(x) == IF x > 0 THEN 1 ELSE IF x < 0 THEN -1 ELSE 0

ZNaN == [sgn |-> 0, n |-> 0, d |-> 0]
\* the z-score k / ZDen
ZOf(k) == [sgn |-> Sign(k), n |-> k * k, d |-> ZDen * ZDen]

ZIsNaN(z) == z.d = 0

\* z > a / ZDen and z < a / ZDen as floats compare: False on NaN
ZGreater(z, a) ==
    /\ ~ZIsNaN(z)
    /\ IF a >= 0
       THEN z.sgn > 0 /\ z.n * ZDen * ZDen > a * a * z.d
       ELSE z.sgn >= 0 \/ z.n * ZDen * ZDen < a * a * z.d

ZLess(z, a) ==
    /\ ~ZIsNaN(z)
    /\ IF a <= 0
       THEN z.sgn < 0 /\ z.n * ZDen * ZDen > a * a * z.d
       ELSE z.sgn <= 0 \/ z.n * ZDen * ZDen < a * a * z.d

RECURSIVE WindowSum(_, _, _)
\* sum of the w values of s ending at row t
WindowSum(s, w, t) == IF w = 0 THEN 0 ELSE WindowSum(s, w - 1, t - 1) + s[t]

Squares(s) == [t \in Index(s) |-> s[t] * s[t]]

\* a rolling window yields a value once it holds `window` observations
\* (min_periods defaults to the window length)
WindowFull(window, t) == t >= window

\* (prices - prices.rolling(window).mean()) / prices.rolling(window).std() at
\* row t.  With S and SS the sums of the window and of its squares,
\*   x - mean = (window * x - S) / window
\*   std^2    = (window * SS - S * S) / (window * (window - 1))
\* A window of equal values has std 0 and x = mean: 0 / 0 = NaN (so has a
\* window of one value, whose sample std is NaN).
ZScoreAt(prices, window, t) ==
    IF ~WindowFull(window, t) THEN ZNaN
    ELSE LET S   == WindowSum(prices, window, t)
             SS  == WindowSum(Squares(prices), window, t)
             dev == window * prices[t] - S
             Q   == window * SS - S * S
         IN  IF Q = 0 THEN ZNaN
             ELSE [sgn |-> Sign(dev), n |-> dev * dev * (window - 1), d |-> window * Q]

\* MeanReversionStrategy.calculate_zscore, mean_reversion.py:12-16
calculate_zscore(prices, lookback) ==
    [t \in Index(prices) |-> ZScoreAt(prices, lookback, t)]

(***************************************************************************)
(* MeanReversionStrategy.generate_signals, mean_reversion.py:18-37.        *)
(***************************************************************************)
\* 19-21: the frame, price and zscore
MrZscore ==
    /\ pc = "mr_start"
    /\ signals' = [index |-> Index(data.Close),
                   price |-> data.Close,
                   zscore |-> calculate_zscore(data.Close, strategy.lookback)]
    /\ pc' = "mr_long_entry"
    /\ UNCHANGED <<strategy, engine, data, portfolio, locals, pairs, metrics, history, loader>>

\* the comparison written as a negation, which is True on NaN
LongEntryNegated(zscore, entry) ==
    [t \in Index(zscore) |-> ZIsNaN(zscore[t]) \/ ZLess(zscore[t], -entry)]

\* 23: long_entry = zscore < -entry_zscore
LongEntry(zscore, entry) == [t \in Index(zscore) |-> ZLess(zscore[t], -entry)]

MrLongEntry ==
    /\ pc = "mr_long_entry"
    /\ signals' = ("long_entry" :> LongEntry(signals.zscore, strategy.entry_zscore))
                      @@ signals
    /\ pc' = "mr_short_entry"
    /\ UNCHANGED <<strategy, engine, data, portfolio, locals, pairs, metrics, history, loader>>

\* the comparison the wrong way round
ShortEntryLess(zscore, entry) == [t \in Index(zscore) |-> ZLess(zscore[t], entry)]

\* 24: short_entry = zscore > entry_zscore
ShortEntry(zscore, entry) == [t \in Index(zscore) |-> ZGreater(zscore[t], entry)]

MrShortEntry ==
    /\ pc = "mr_short_entry"
    /\ signals' = ("short_entry" :> ShortEntry(signals.zscore, strategy.entry_zscore))
                      @@ signals
    /\ pc' = "mr_long_exit"
    /\ UNCHANGED <<strategy, engine, data, portfolio, locals, pairs, metrics, history, loader>>

\* 26: long_exit = zscore > -exit_zscore
LongExit(zscore, exit) == [t \in Index(zscore) |-> ZGreater(zscore[t], -exit)]

MrLongExit ==
    /\ pc = "mr_long_exit"
    /\ signals' = ("long_exit" :> LongExit(signals.zscore, strategy.exit_zscore))
                      @@ signals
    /\ pc' = "mr_short_exit"
    /\ UNCHANGED <<strategy, engine, data, portfolio, locals, pairs, metrics, history, loader>>

\* 27: short_exit = zscore < exit_zscore
ShortExit(zscore, exit) == [t \in Index(zscore) |-> ZLess(zscore[t], exit)]

MrShortExit ==
    /\ pc = "mr_short_exit"
    /\ signals' = ("short_exit" :> ShortExit(signals.zscore, strategy.exit_zscore))
                      @@ signals
    /\ pc' = "mr_position"
    /\ UNCHANGED <<strategy, engine, data, portfolio, locals, pairs, metrics, history, loader>>

\* 29: position = 0 on every row
MrPosition ==
    /\ pc = "mr_position"
    /\ signals' = ("position" :> [t \in signals.index |-> F(0)]) @@ signals
    /\ pc' = "mr_set_long"
    /\ UNCHANGED <<strategy, engine, data, portfolio, locals, pairs, metrics, history, loader>>

\* 30: signals.loc[long_entry, 'position'] = 1
MrSetLong ==
    /\ pc = "mr_set_long"
    /\ signals' = ("position" :> LocAssign(signals.position, signals.long_entry, F(1)))
                      @@ signals
    /\ pc' = "mr_set_short"
    /\ UNCHANGED <<strategy, engine, data, portfolio, locals, pairs, metrics, history, loader>>

\* 31: signals.loc[short_entry, 'position'] = -1
MrSetShort ==
    /\ pc = "mr_set_short"
    /\ signals' = ("position" :> LocAssign(signals.position, signals.short_entry, F(-1)))
                      @@ signals
    /\ pc' = "mr_exit_long"
    /\ UNCHANGED <<strategy, engine, data, portfolio, locals, pairs, metrics, history, loader>>

\* the exit test on the row itself instead of the row before it
LongExitMaskNoShift(long_exit, position) ==
    [t \in Index(position) |-> long_exit[t] /\ FPositive(position[t])]

\* 32: the mask long_exit & (position.shift(1) > 0)
LongExitMask(long_exit, position) ==
    LET prev == Shift1(position)
    IN  [t \in Index(position) |-> long_exit[t] /\ FPositive(prev[t])]

MrExitLong ==
    /\ pc = "mr_exit_long"
    /\ signals' = ("position" :>
                      LocAssign(signals.position,
                                LongExitMask(signals.long_exit, signals.position), F(0)))
                      @@ signals
    /\ pc' = "mr_exit_short"
    /\ UNCHANGED <<strategy, engine, data, portfolio, locals, pairs, metrics, history, loader>>

\* 33: the mask short_exit & (position.shift(1) < 0)
ShortExitMask(short_exit, position) ==
    LET prev == Shift1(position)
    IN  [t \in Index(position) |-> short_exit[t] /\ FNegative(prev[t])]

MrExitShort ==
    /\ pc = "mr_exit_short"
    /\ signals' = ("position" :>
                      LocAssign(signals.position,
                                ShortExitMask(signals.short_exit, signals.position), F(0)))
                      @@ signals
    /\ pc' = "mr_ffill"
    /\ UNCHANGED <<strategy, engine, data, portfolio, locals, pairs, metrics, history, loader>>

\* the generator keeping the positions in self.positions
MrFillStoring ==
    /\ pc = "mr_ffill"
    /\ signals' = ("position" :> Fillna0(FFill(signals.position))) @@ signals
    /\ strategy' = [strategy EXCEPT !.positions = signals'.position]
    /\ pc' = "mr_done"
    /\ UNCHANGED <<engine, data, portfolio, locals, pairs, metrics, history, loader>>

\* 35, 37: position = position.fillna(method='ffill').fillna(0); return signals
MrFill ==
    /\ pc = "mr_ffill"
    /\ signals' = ("position" :> Fillna0(FFill(signals.position))) @@ signals
    /\ pc' = "mr_done"
    /\ UNCHANGED <<strategy, engine, data, portfolio, locals, pairs, metrics, history, loader>>

mr_generate_signals ==
    \/ MrZscore
    \/ MrLongEntry
    \/ MrShortEntry
    \/ MrLongExit
    \/ MrShortExit
    \/ MrPosition
    \/ MrSetLong
    \/ MrSetShort
    \/ MrExitLong
    \/ MrExitShort
    \/ MrFill

(***************************************************************************)
(* Inputs of the mean-reversion generator.  A short look-back is run from  *)
(* the prices.  For the default look-back of 20 the price series are too   *)
(* many to enumerate: there the run starts after line 21 with the zscore   *)
(* column drawn, NaN on the lookback - 1 warm-up rows and any value of     *)
(* ZValues (or NaN: a window of equal prices) on the rows after them.      *)
(***************************************************************************)
\* close prices of the short series
MrPrices == {1, 2, 3}
\* look-backs run from the prices
ShortLookbacks == {2, 3}
\* (entry_zscore, exit_zscore) in units of 1 / ZDen, entry > exit >= 0:
\* (2.0, 0.5) the defaults, (2.0, 0), (1.0, 0.5), (0.5, 0)
Thresholds == {<<4, 1>>, <<4, 0>>, <<2, 1>>, <<1, 0>>}
\* drawn z-scores in units of 1 / ZDen: -2.5, -2, -1, -0.5, 0, 0.5, 1, 2, 2.5
ZValues == {-5, -4, -2, -1, 0, 1, 2, 4, 5}

MrStrategy(lookback, th) ==
    [lookback |-> lookback, entry_zscore |-> th[1], exit_zscore |-> th[2],
     positions |-> <<>>]

InitMrPrices ==
    /\ pc = "mr_start"
    /\ \E lb \in ShortLookbacks, th \in Thresholds : strategy = MrStrategy(lb, th)
    /\ \E n \in 1..MaxLen : data \in [Close : [1..n -> MrPrices]]
    /\ signals = NoFrame

InitMrZscore ==
    /\ pc = "mr_long_entry"
    /\ \E th \in Thresholds : strategy = MrStrategy(DefaultLookback, th)
    /\ data = NoObject
    /\ \E m \in 0..MaxTail :
          \E tail \in [1..m -> {ZNaN} \cup {ZOf(k) : k \in ZValues}] :
              LET warm == DefaultLookback - 1
                  n == warm + m
              IN  signals = [index |-> 1..n,
                             zscore |-> [t \in 1..n |-> IF t <= warm THEN ZNaN
                                                        ELSE tail[t - warm]]]

InitMeanReversion ==
    /\ InitMrPrices \/ InitMrZscore
    /\ engine = NoObject
    /\ portfolio = NoFrame
    /\ locals = NoObject /\ pairs = NoObject /\ metrics = NoObject
    /\ history = NoObject
    /\ loader = NoObject

SpecMeanReversion == InitMeanReversion /\ [][mr_generate_signals]_vars

(***************************************************************************)
(* Float arithmetic of the momentum table (finite values and NaN).         *)
(***************************************************************************)
FNeg(x) == [n |-> -x.n, d |-> x.d]
\* abs(x)
FAbs(x) == [n |-> Abs(x.n), d |-> x.d]
\* x < y as floats compare: False when either is NaN
FLess(x, y) == ~IsNaN(x) /\ ~IsNaN(y) /\ x.n * y.d < y.n * x.d
FAdd(x, y) == IF IsNaN(x) \/ IsNaN(y) THEN FNaN
              ELSE Frac(x.n * y.d + y.n * x.d, x.d * y.d)
FSub(x, y) == FAdd(x, FNeg(y))
\* k * x and x / k for an integer k: NaN stays NaN (0 * NaN is NaN)
FTimes(k, x) == IF IsNaN(x) THEN FNaN ELSE Frac(k * x.n, x.d)
FOver(x, k) == IF IsNaN(x) THEN FNaN ELSE Frac(x.n, x.d * k)
\* np.minimum(x, y): NaN when either is NaN
FMinimum(x, y) == IF IsNaN(x) \/ IsNaN(y) THEN FNaN
                  ELSE IF FLess(y, x) THEN y ELSE x

(***************************************************************************)
(* MomentumStrategy.generate_signals, momentum.py:14-37.                   *)
(***************************************************************************)
\* momentum.py:27  rolling(252)
QuantileWindow == 252
\* momentum.py:27  quantile(0.8) = QuantileNum / QuantileDen
QuantileNum == 4
QuantileDen == 5
\* momentum.py:34  abs(vol_adjusted_momentum) / 2
SizeDivisor == 2
\* momentum.py:6  lookback=20, holding_period=5
MomentumLookback == 20
HoldingPeriod == 5

\* the rows of the window of `window` rows ending at row t
WindowRows(window, t) == (t - window + 1)..t

\* the k-th smallest (k = 0 for the smallest) of the values of s on rows
KthSmallest(s, rows, k) ==
    CHOOSE v \in {s[i] : i \in rows} :
        /\ Cardinality({i \in rows : FLess(s[i], v)}) <= k
        /\ k < Cardinality({i \in rows : ~FLess(v, s[i])})

\* s.rolling(window).quantile(q) at row t, linear interpolation: NaN unless
\* the window holds `window` values that are not NaN; else, with
\* (window - 1) * q = lo + rem / QuantileDen, sorted[lo] + (sorted[lo + 1] -
\* sorted[lo]) * rem / QuantileDen
RollingQuantileAt(s, window, t) ==
    IF t < window \/ \E i \in WindowRows(window, t) : IsNaN(s[i]) THEN FNaN
    ELSE LET pos == (window - 1) * QuantileNum
             lo  == pos \div QuantileDen
             rem == pos % QuantileDen
             vlo == KthSmallest(s, WindowRows(window, t), lo)
         IN  IF rem = 0 THEN vlo
             ELSE LET vhi == KthSmallest(s, WindowRows(window, t), lo + 1)
                  IN  FAdd(vlo, FOver(FTimes(rem, FSub(vhi, vlo)), QuantileDen))

\* 27: momentum_threshold = vol_adjusted_momentum.rolling(252).quantile(0.8)
MomentumThreshold(vam) ==
    [t \in Index(vam) |-> RollingQuantileAt(vam, QuantileWindow, t)]

\* 26-27: signal = 0 on every row; the threshold
MoThreshold ==
    /\ pc = "mo_threshold"
    /\ signals' = ("signal" :> [t \in signals.index |-> 0])
                    @@ ("momentum_threshold" :>
                            MomentumThreshold(signals.vol_adjusted_momentum))
                    @@ signals
    /\ pc' = "mo_set_long"
    /\ UNCHANGED <<strategy, engine, data, portfolio, locals, pairs, metrics, history, loader>>

\* 29: signals.loc[vol_adjusted_momentum > momentum_threshold, 'signal'] = 1
MoSetLong ==
    /\ pc = "mo_set_long"
    /\ LET mask == [t \in signals.index |->
                       FLess(signals.momentum_threshold[t],
                             signals.vol_adjusted_momentum[t])]
       IN  signals' = ("signal" :> [t \in signals.index |->
                                       IF mask[t] THEN 1 ELSE signals.signal[t]])
                          @@ signals
    /\ pc' = "mo_set_short"
    /\ UNCHANGED <<strategy, engine, data, portfolio, locals, pairs, metrics, history, loader>>

\* 30: signals.loc[vol_adjusted_momentum < -momentum_threshold, 'signal'] = -1
MoSetShort ==
    /\ pc = "mo_set_short"
    /\ LET mask == [t \in signals.index |->
                       FLess(signals.vol_adjusted_momentum[t],
                             FNeg(signals.momentum_threshold[t]))]
       IN  signals' = ("signal" :> [t \in signals.index |->
                                       IF mask[t] THEN -1 ELSE signals.signal[t]])
                          @@ signals
    /\ pc' = "mo_position"
    /\ UNCHANGED <<strategy, engine, data, portfolio, locals, pairs, metrics, history, loader>>

\* 33-35: signal * np.minimum(abs(vol_adjusted_momentum) / 2, 1)
PositionSize(signal, vam) ==
    FTimes(signal, FMinimum(FOver(FAbs(vam), SizeDivisor), F(1)))

\* 33-37: position; return signals
MoPosition ==
    /\ pc = "mo_position"
    /\ signals' = ("position" :>
                      [t \in signals.index |->
                          PositionSize(signals.signal[t],
                                       signals.vol_adjusted_momentum[t])])
                      @@ signals
    /\ pc' = "mo_done"
    /\ UNCHANGED <<strategy, engine, data, portfolio, locals, pairs, metrics, history, loader>>

mo_generate_signals ==
    \/ MoThreshold
    \/ MoSetLong
    \/ MoSetShort
    \/ MoPosition

(***************************************************************************)
(* Inputs of the momentum generator.  The run starts after line 23, with   *)
(* the vol_adjusted_momentum column drawn.  momentum = pct_change(lookback)*)
(* (line 19) and volatility = returns.rolling(lookback).std() over returns *)
(* whose first row is NaN (lines 18, 22) are both NaN on the first         *)
(* `lookback` rows, and so is their quotient (line 23).  After the warm-up *)
(* come either no history or QuantileWindow - 1 rows of history, made of   *)
(* two runs of constant value, and then 1..MaxTail rows of any value of    *)
(* VamValues or NaN (momentum 0 over volatility 0).  Infinite values       *)
(* (volatility 0, momentum not 0) are not drawn.                           *)
(***************************************************************************)
\* values of vol_adjusted_momentum
VamValues == {-3, -1, 0, 1, 3}
\* the length of the first run of the history
HistorySplits == {201, 251}

InitMomentum ==
    /\ pc = "mo_threshold"
    /\ strategy = [lookback |-> MomentumLookback, holding_period |-> HoldingPeriod]
    /\ engine = NoObject
    /\ data = NoObject
    /\ portfolio = NoFrame
    /\ locals = NoObject /\ pairs = NoObject /\ metrics = NoObject
    /\ history = NoObject
    /\ loader = NoObject
    /\ \E h \in {0, QuantileWindow - 1}, split \in HistorySplits,
          b1, b2 \in VamValues, m \in 1..MaxTail :
          \E tail \in [1..m -> {FNaN} \cup {F(k) : k \in VamValues}] :
              LET warm == strategy.lookback
                  n == warm + h + m
              IN  signals =
                    [index |-> 1..n,
                     vol_adjusted_momentum |->
                        [t \in 1..n |->
                            IF t <= warm THEN FNaN
                            ELSE IF t <= warm + h
                                 THEN (IF t - warm <= split THEN F(b1) ELSE F(b2))
                            ELSE tail[t - warm - h]]]

SpecMomentum == InitMomentum /\ [][mo_generate_signals]_vars

(***************************************************************************)
(* PairsTradingStrategy.generate_signals, pairs_trading.py:82-120.         *)
(* The call's arguments are held in data: the two Close series and the     *)
(* hedge ratio, a float.                                                   *)
(***************************************************************************)
\* pairs_trading.py:8  lookback=60
PairsLookback == 60

\* 84, 87-88: the frame and the two price columns
PtFrame ==
    /\ pc = "pt_start"
    /\ signals' = [index |-> Index(data.stock1.Close),
                   stock1_price |-> [t \in Index(data.stock1.Close) |-> F(data.stock1.Close[t])],
                   stock2_price |-> [t \in Index(data.stock2.Close) |-> F(data.stock2.Close[t])]]
    /\ pc' = "pt_spread"
    /\ UNCHANGED <<strategy, engine, data, portfolio, locals, pairs, metrics, history, loader>>

\* x * y for two floats
FMul(x, y) == IF IsNaN(x) \/ IsNaN(y) THEN FNaN ELSE Frac(x.n * y.n, x.d * y.d)

\* 89: spread = stock1_price - hedge_ratio * stock2_price
Spread(stock1_price, stock2_price, hedge_ratio) ==
    [t \in Index(stock1_price) |->
        FSub(stock1_price[t], FMul(hedge_ratio, stock2_price[t]))]

PtSpread ==
    /\ pc = "pt_spread"
    /\ signals' = ("spread" :> Spread(signals.stock1_price, signals.stock2_price,
                                      data.hedge_ratio)) @@ signals
    /\ pc' = "pt_zscore"
    /\ UNCHANGED <<strategy, engine, data, portfolio, locals, pairs, metrics, history, loader>>

\* the spread in units of 1 / den, den a common denominator of its values
SpreadUnits(spread, den) ==
    [t \in Index(spread) |-> spread[t].n * (den \div spread[t].d)]

\* 92-94: zscore = (spread - rolling mean) / rolling std.  The z-score does
\* not change when every value is multiplied by the same positive number, so
\* it is computed on the spread in units of 1 / (denominator of hedge_ratio).
PairsZscore(spread, hedge_ratio, lookback) ==
    LET units == SpreadUnits(spread, hedge_ratio.d)
    IN  [t \in Index(spread) |-> ZScoreAt(units, lookback, t)]

PtZscore ==
    /\ pc = "pt_zscore"
    /\ signals' = ("zscore" :> PairsZscore(signals.spread, data.hedge_ratio,
                                           strategy.lookback)) @@ signals
    /\ pc' = "pt_long_spread"
    /\ UNCHANGED <<strategy, engine, data, portfolio, locals, pairs, metrics, history, loader>>

\* abs(z)
ZAbs(z) == [z EXCEPT !.sgn = Abs(z.sgn)]

\* 97: long_spread = zscore < -entry_zscore
PtLongSpread ==
    /\ pc = "pt_long_spread"
    /\ signals' = ("long_spread" :>
                      [t \in Index(signals.zscore) |->
                          ZLess(signals.zscore[t], -strategy.entry_zscore)]) @@ signals
    /\ pc' = "pt_short_spread"
    /\ UNCHANGED <<strategy, engine, data, portfolio, locals, pairs, metrics, history, loader>>

\* 98: short_spread = zscore > entry_zscore
PtShortSpread ==
    /\ pc = "pt_short_spread"
    /\ signals' = ("short_spread" :>
                      [t \in Index(signals.zscore) |->
                          ZGreater(signals.zscore[t], strategy.entry_zscore)]) @@ signals
    /\ pc' = "pt_exit_spread"
    /\ UNCHANGED <<strategy, engine, data, portfolio, locals, pairs, metrics, history, loader>>

\* 99: exit_spread = abs(zscore) < exit_zscore
ExitSpread(zscore, exit) == [t \in Index(zscore) |-> ZLess(ZAbs(zscore[t]), exit)]

PtExitSpread ==
    /\ pc = "pt_exit_spread"
    /\ signals' = ("exit_spread" :> ExitSpread(signals.zscore, strategy.exit_zscore))
                      @@ signals
    /\ pc' = "pt_positions"
    /\ UNCHANGED <<strategy, engine, data, portfolio, locals, pairs, metrics, history, loader>>

\* 102-103: position1 = 0; position2 = 0
PtPositions ==
    /\ pc = "pt_positions"
    /\ signals' = ("position1" :> [t \in signals.index |-> F(0)]) @@
                  ("position2" :> [t \in signals.index |-> F(0)]) @@ signals
    /\ pc' = "pt_set_long"
    /\ UNCHANGED <<strategy, engine, data, portfolio, locals, pairs, metrics, history, loader>>

\* the second leg bought instead of sold
LongLeg2SameSide(hedge_ratio) == hedge_ratio

\* 107: the value -hedge_ratio of the second leg of a long spread
LongLeg2(hedge_ratio) == FNeg(hedge_ratio)

\* 106-107: long spread: position1 = 1, position2 = -hedge_ratio
PtSetLong ==
    /\ pc = "pt_set_long"
    /\ signals' = ("position1" :>
                      LocAssign(signals.position1, signals.long_spread, F(1))) @@
                  ("position2" :>
                      LocAssign(signals.position2, signals.long_spread,
                                LongLeg2(data.hedge_ratio))) @@ signals
    /\ pc' = "pt_set_short"
    /\ UNCHANGED <<strategy, engine, data, portfolio, locals, pairs, metrics, history, loader>>

\* 110-111: short spread: position1 = -1, position2 = hedge_ratio
PtSetShort ==
    /\ pc = "pt_set_short"
    /\ signals' = ("position1" :>
                      LocAssign(signals.position1, signals.short_spread, F(-1))) @@
                  ("position2" :>
                      LocAssign(signals.position2, signals.short_spread,
                                data.hedge_ratio)) @@ signals
    /\ pc' = "pt_exit"
    /\ UNCHANGED <<strategy, engine, data, portfolio, locals, pairs, metrics, history, loader>>

\* 114-115: exit: position1 = 0, position2 = 0
PtExit ==
    /\ pc = "pt_exit"
    /\ signals' = ("position1" :>
                      LocAssign(signals.position1, signals.exit_spread, F(0))) @@
                  ("position2" :>
                      LocAssign(signals.position2, signals.exit_spread, F(0))) @@ signals
    /\ pc' = "pt_ffill"
    /\ UNCHANGED <<strategy, engine, data, portfolio, locals, pairs, metrics, history, loader>>

\* 117-118, 120: both positions .fillna(method='ffill').fillna(0); return
PtFill ==
    /\ pc = "pt_ffill"
    /\ signals' = ("position1" :> Fillna0(FFill(signals.position1))) @@
                  ("position2" :> Fillna0(FFill(signals.position2))) @@ signals
    /\ pc' = "pt_done"
    /\ UNCHANGED <<strategy, engine, data, portfolio, locals, pairs, metrics, history, loader>>

pt_generate_signals ==
    \/ PtFrame
    \/ PtSpread
    \/ PtZscore
    \/ PtLongSpread
    \/ PtShortSpread
    \/ PtExitSpread
    \/ PtPositions
    \/ PtSetLong
    \/ PtSetShort
    \/ PtExit
    \/ PtFill

(***************************************************************************)
(* Inputs of the pairs generator, drawn as those of the mean-reversion     *)
(* generator: short look-backs are run from the two price series, the      *)
(* default look-back of 60 from the zscore column, NaN on its 59 warm-up   *)
(* rows.                                                                   *)
(***************************************************************************)
\* rows of the short price series and rows after the warm-up
MaxPairLen == 4
MaxPairTail == 2
\* close prices of the two stocks
PairPrices == {1, 2}
\* hedge ratios 1.5 and -1
HedgeRatios == {Frac(3, 2), Frac(-1, 1)}
\* (entry_zscore, exit_zscore) in units of 1 / ZDen: (2.0, 0.5) the defaults,
\* (1.0, 2.0) where an entry row can also be an exit row, (0.5, 0)
PairThresholds == {<<4, 1>>, <<2, 4>>, <<1, 0>>}
\* drawn z-scores in units of 1 / ZDen: -2.5, -2, -1.5, -0.5, 0, 0.5, 1.5, 2, 2.5
PairZValues == {-5, -4, -3, -1, 0, 1, 3, 4, 5}

PairsStrategy(lookback, th) ==
    [lookback |-> lookback, entry_zscore |-> th[1], exit_zscore |-> th[2]]

InitPtPrices ==
    /\ pc = "pt_start"
    /\ \E lb \in ShortLookbacks, th \in PairThresholds : strategy = PairsStrategy(lb, th)
    /\ \E n \in 1..MaxPairLen :
          data \in [stock1 : [Close : [1..n -> PairPrices]],
                    stock2 : [Close : [1..n -> PairPrices]],
                    hedge_ratio : HedgeRatios]
    /\ signals = NoFrame

InitPtZscore ==
    /\ pc = "pt_long_spread"
    /\ \E th \in PairThresholds : strategy = PairsStrategy(PairsLookback, th)
    /\ data \in [hedge_ratio : HedgeRatios]
    /\ \E m \in 0..MaxPairTail :
          \E tail \in [1..m -> {ZNaN} \cup {ZOf(k) : k \in PairZValues}] :
              LET warm == PairsLookback - 1
                  n == warm + m
              IN  signals = [index |-> 1..n,
                             zscore |-> [t \in 1..n |-> IF t <= warm THEN ZNaN
                                                        ELSE tail[t - warm]]]

InitPairs ==
    /\ InitPtPrices \/ InitPtZscore
    /\ engine = NoObject
    /\ portfolio = NoFrame
    /\ locals = NoObject /\ pairs = NoObject /\ metrics = NoObject
    /\ history = NoObject
    /\ loader = NoObject

SpecPairs == InitPairs /\ [][pt_generate_signals]_vars

(***************************************************************************)
(* PairsTradingStrategy.calculate_half_life, pairs_trading.py:61-80.       *)
(* What a library call gives is an outcome: a value, or an exception.      *)
(***************************************************************************)
Gives(v) == [raises |-> FALSE, called |-> TRUE, value |-> v]
Raises(v) == [raises |-> TRUE, called |-> TRUE, value |-> v]
\* the call was not reached
NotCalled(v) == [raises |-> FALSE, called |-> FALSE, value |-> v]
Returned(o) == o.called /\ ~o.raises

\* 70, 75, 80: return 30
DefaultHalfLife == 30
\* np.log(2) = 0.693147..., as Ln2Num / Ln2Den
Ln2Num == 693147
Ln2Den == 1000000

\* 77-78: max(1, int(-np.log(2) / slope)) for a slope n / d other than 0;
\* int() truncates towards zero, so a positive slope gives max(1, <= 0) = 1
HalfLifeOf(slope) ==
    IF slope.n > 0 THEN 1
    ELSE LET q == (Ln2Num * slope.d) \div (Ln2Den * (-slope.n))
         IN  IF q > 1 THEN q ELSE 1

\* calculate_half_life(spread): `points` is len(spread) - 1, the length of
\* spread_lag[1:], and `fit` the outcome of np.polyfit(spread_lag,
\* spread_diff, 1)[0] on line 72.  A NaN slope is not == 0 and int(NaN)
\* raises, which line 79 catches.
calculate_half_life(points, fit) ==
    IF points < 2 THEN DefaultHalfLife
    ELSE IF fit.raises THEN DefaultHalfLife
    ELSE IF fit.value = F(0) THEN DefaultHalfLife
    ELSE IF IsNaN(fit.value) THEN DefaultHalfLife
    ELSE HalfLifeOf(fit.value)

(***************************************************************************)
(* PairsTradingStrategy.find_cointegrated_pairs, pairs_trading.py:13-59.   *)
(* data holds the arguments: data_dict, the tables in the order of their   *)
(* keys, and p_value_threshold.  A table has a set of columns, an index of *)
(* dates and the dates on which its Close is not NaN.  p-values are in     *)
(* units of 1 / PDen.  The statistical tests are library code: what coint, *)
(* np.polyfit and adfuller give on a pair is drawn when the pair is        *)
(* evaluated and kept in locals.log.                                         *)
(***************************************************************************)
PDen == 100
\* pairs_trading.py:13  p_value_threshold=0.05
DefaultPValueThreshold == 5

Table(symbol, columns, index, valid) ==
    [symbol |-> symbol, columns |-> columns, index |-> index, valid |-> valid]

\* 15-17: symbols, n, pairs = []
FpStart ==
    /\ pc = "fp_start"
    /\ locals' = [i |-> 1, j |-> 2, log |-> <<>>]
    /\ pairs' = <<>>
    /\ pc' = "fp_loop"
    /\ UNCHANGED <<strategy, engine, data, signals, portfolio, metrics, history, loader>>

NumSymbols == Len(data.data_dict)

\* 19-20: for i in range(n): for j in range(i+1, n)
InLoop(i, j) == i < j /\ j <= NumSymbols
NextI(i, j) == IF j + 1 <= NumSymbols THEN i ELSE i + 1
NextJ(i, j) == IF j + 1 <= NumSymbols THEN j + 1 ELSE i + 2

\* 30-33: the rows of pd.DataFrame({'stock1': ..., 'stock2': ...}).dropna():
\* the dates on which both closes are defined
Aligned(table1, table2) == table1.valid \cap table2.valid

\* 22-23: a table without a Close column raises KeyError
HasClose(table) == "Close" \in table.columns
\* 26: stock1.empty or stock2.empty
Empty(table) == table.index = {}

\* the tests reached with p-values at the threshold counted as below it
PBelowOrEqual(p, threshold) == p <= threshold

\* 41, 48: p_value < p_value_threshold
PBelow(p, threshold) == p < threshold

\* the tests that the evaluation of a pair reaches
ReachesTests(lookback, table1, table2) ==
    /\ HasClose(table1) /\ HasClose(table2)
    /\ ~Empty(table1) /\ ~Empty(table2)
    /\ ~(Cardinality(Aligned(table1, table2)) < lookback)

\* 21-57: what the body of the loop does with one pair: "raise" when a
\* statement of the try block raises, "continue" when the pair is skipped or
\* rejected, "append" when line 49 is reached
Evaluate(lookback, threshold, table1, table2, tests) ==
    IF ~HasClose(table1) \/ ~HasClose(table2) THEN "raise"
    ELSE IF Empty(table1) \/ Empty(table2) THEN "continue"
    ELSE IF Cardinality(Aligned(table1, table2)) < lookback THEN "continue"
    ELSE IF tests.coint.raises THEN "raise"
    ELSE IF ~PBelow(tests.coint.value, threshold) THEN "continue"
    ELSE IF tests.polyfit.raises THEN "raise"
    ELSE IF tests.adfuller.raises THEN "raise"
    ELSE IF ~PBelow(tests.adfuller.value, threshold) THEN "continue"
    ELSE "append"

\* 49-54: the appended pair
PairOf(table1, table2, tests) ==
    [pair |-> <<table1.symbol, table2.symbol>>,
     p_value |-> tests.coint.value,
     hedge_ratio |-> tests.polyfit.value,
     half_life |-> calculate_half_life(Cardinality(Aligned(table1, table2)) - 1,
                                       tests.fit)]

\* an exception not caught: the call ends with it
AfterRaiseUncaught == "fp_raised"

\* 55-57: except Exception: continue
AfterRaise == "fp_loop"

\* outcomes of the library calls on one pair: coint raises; coint gives a
\* p-value at the threshold; np.polyfit raises; adfuller raises; adfuller
\* gives a p-value at the threshold; both tests pass, with p-value 0.03 and a
\* fitted slope of -0.1, or with p-value 0.01 and the fit of the half-life
\* raising
NoTests ==
    [coint |-> NotCalled(0), polyfit |-> NotCalled(FNaN),
     adfuller |-> NotCalled(0), fit |-> NotCalled(FNaN)]
PairTests ==
    {[NoTests EXCEPT !.coint = Raises(0)],
     [NoTests EXCEPT !.coint = Gives(5)],
     [NoTests EXCEPT !.coint = Gives(1), !.polyfit = Raises(FNaN)],
     [NoTests EXCEPT !.coint = Gives(1), !.polyfit = Gives(Frac(3, 2)),
                     !.adfuller = Raises(0)],
     [NoTests EXCEPT !.coint = Gives(3), !.polyfit = Gives(Frac(3, 2)),
                     !.adfuller = Gives(5)],
     [NoTests EXCEPT !.coint = Gives(3), !.polyfit = Gives(Frac(3, 2)),
                     !.adfuller = Gives(1), !.fit = Gives(Frac(-1, 10))],
     [NoTests EXCEPT !.coint = Gives(1), !.polyfit = Gives(Frac(1, 2)),
                     !.adfuller = Gives(2), !.fit = Raises(FNaN)]}

\* 21-57: one pass of the loop body, then the next (i, j)
FpEvaluate ==
    /\ pc = "fp_loop"
    /\ InLoop(locals.i, locals.j)
    /\ LET table1 == data.data_dict[locals.i]
           table2 == data.data_dict[locals.j]
       IN  \E tests \in IF ReachesTests(strategy.lookback, table1, table2)
                        THEN PairTests ELSE {NoTests} :
               LET outcome == Evaluate(strategy.lookback, data.p_value_threshold,
                                       table1, table2, tests)
               IN  /\ pairs' = IF outcome = "append"
                               THEN Append(pairs, PairOf(table1, table2, tests))
                               ELSE pairs
                   /\ locals' = [i |-> NextI(locals.i, locals.j),
                               j |-> NextJ(locals.i, locals.j),
                               log |-> Append(locals.log,
                                              [i |-> locals.i, j |-> locals.j,
                                               tests |-> tests,
                                               outcome |-> outcome])]
                   /\ pc' = IF outcome = "raise" THEN AfterRaise ELSE "fp_loop"
    /\ UNCHANGED <<strategy, engine, data, signals, portfolio, metrics, history, loader>>

RECURSIVE SortByPValue(_)
\* pairs returned in the order they were found
Unsorted(list) == list

\* 59: sorted(pairs, key=lambda x: x['p_value']); sorted() is stable
SortByPValue(list) ==
    IF list = <<>> THEN <<>>
    ELSE LET n == Len(list)
             last == list[n]
             before == SortByPValue(SubSeq(list, 1, n - 1))
             k == Cardinality({m \in 1..(n - 1) : before[m].p_value <= last.p_value})
         IN  SubSeq(before, 1, k) \o <<last>> \o SubSeq(before, k + 1, n - 1)

\* 59: return sorted(pairs, ...) when the loops are over
FpReturn ==
    /\ pc = "fp_loop"
    /\ ~InLoop(locals.i, locals.j)
    /\ pairs' = SortByPValue(pairs)
    /\ pc' = "fp_done"
    /\ UNCHANGED <<strategy, engine, data, signals, portfolio, locals, metrics, history, loader>>

find_cointegrated_pairs ==
    \/ FpStart
    \/ FpEvaluate
    \/ FpReturn

(***************************************************************************)
(* Inputs of the pair scan: up to MaxSymbols tables, each without a Close  *)
(* column, empty, all NaN, or defined on ScanLookback dates (two ranges of *)
(* dates that share one date too few).                                     *)
(***************************************************************************)
MaxSymbols == 3
\* the look-back of the scanning strategy
ScanLookback == 3
SymbolNames == <<"A", "B", "C", "D", "E">>

SymbolTables(symbol) ==
    {Table(symbol, {}, 1..ScanLookback, {}),
     Table(symbol, {"Close"}, {}, {}),
     Table(symbol, {"Close"}, 1..ScanLookback, {}),
     Table(symbol, {"Close"}, 1..ScanLookback, 1..ScanLookback),
     Table(symbol, {"Close"}, 2..(ScanLookback + 1), 2..(ScanLookback + 1))}

InitPairFinder ==
    /\ pc = "fp_start"
    /\ strategy = PairsStrategy(ScanLookback, <<4, 1>>)
    /\ \E n \in 0..MaxSymbols :
          \E tables \in [1..n -> UNION {SymbolTables(SymbolNames[k]) : k \in 1..n}] :
              /\ \A k \in 1..n : tables[k].symbol = SymbolNames[k]
              /\ data = [data_dict |-> tables,
                         p_value_threshold |-> DefaultPValueThreshold]
    /\ engine = NoObject
    /\ signals = NoFrame
    /\ portfolio = NoFrame
    /\ locals = NoObject /\ pairs = NoObject /\ metrics = NoObject
    /\ history = NoObject
    /\ loader = NoObject

SpecPairFinder == InitPairFinder /\ [][find_cointegrated_pairs]_vars

(***************************************************************************)
(* Statistics of a series of floats.  A series that dropna() or a boolean  *)
(* mask has filtered is a sequence of the kept values.                     *)
(***************************************************************************)
LCM(a, b) == (a \div GCD(a, b)) * b

\* x + y and x - y for finite floats, over the least common denominator
FPlus(x, y) ==
    IF IsNaN(x) \/ IsNaN(y) THEN FNaN
    ELSE LET l == LCM(x.d, y.d)
         IN  Frac(x.n * (l \div x.d) + y.n * (l \div y.d), l)
FMinus(x, y) == FPlus(x, FNeg(y))

\* x / y for finite floats: x / 0 is +-infinity, 0 / 0 is NaN
FDiv(x, y) ==
    IF IsNaN(x) \/ IsNaN(y) THEN FNaN
    ELSE IF y.n = 0 THEN Frac(x.n, 0)
    ELSE LET g1 == GCD(Abs(x.n), Abs(y.n))
             g2 == GCD(x.d, y.d)
         IN  Frac((x.n \div g1) * (y.d \div g2), (x.d \div g2) * (y.n \div g1))

IsInf(x) == x.d = 0 /\ x.n # 0

\* s.dropna()
DropNa(s) == SelectSeq(s, LAMBDA x : ~IsNaN(x))

RECURSIVE FSumTo(_, _)
FSumTo(s, t) == IF t = 0 THEN F(0) ELSE FPlus(FSumTo(s, t - 1), s[t])
\* s.sum(): 0 for an empty series
FSum(s) == FSumTo(s, Len(s))
\* s.mean(): NaN for an empty series
Mean(s) == FDiv(FSum(s), F(Len(s)))

FSquares(s) == [t \in Index(s) |-> FMul(s[t], s[t])]

\* the variance with n - ddof in the denominator: s.std() ** 2 for ddof = 1
\* (NaN for fewer than two values), np.var(s) for ddof = 0
Variance(s, ddof) ==
    LET n == Len(s)
        S == FSum(s)
    IN  FDiv(FMinus(FTimes(n, FSum(FSquares(s))), FMul(S, S)), F(n * (n - ddof)))

\* the float k * sqrt(sq)
Surd(k, sq) == [k |-> k, sq |-> sq]
\* the float num / sqrt(root): NaN when num or root is NaN or both are 0,
\* +-infinity when only root is 0
Ratio(num, root) == [num |-> num, root |-> root]
RatioIsNaN(r) == IsNaN(r.num) \/ IsNaN(r.root) \/ (r.num.n = 0 /\ r.root.n = 0)
RatioIsInf(r) == ~RatioIsNaN(r) /\ r.root.n = 0

\* np.percentile(s, q), linear interpolation, for a series that is not
\* empty: with (n - 1) * q / 100 = lo + rem / 100,
\* sorted[lo] + (sorted[lo + 1] - sorted[lo]) * rem / 100
PercentDen == 100
Percentile(s, q) ==
    LET pos == (Len(s) - 1) * q
        lo  == pos \div PercentDen
        rem == pos % PercentDen
        vlo == KthSmallest(s, Index(s), lo)
    IN  IF rem = 0 THEN vlo
        ELSE LET vhi == KthSmallest(s, Index(s), lo + 1)
             IN  FPlus(vlo, FDiv(FTimes(rem, FMinus(vhi, vlo)), F(PercentDen)))

(***************************************************************************)
(* BacktestEngine.calculate_max_drawdown, engine.py:57-62.                 *)
(***************************************************************************)
RECURSIVE ProdTo(_, _)
\* the product of the values of s up to row t that are not NaN
ProdTo(s, t) ==
    IF t = 0 THEN F(1)
    ELSE IF IsNaN(s[t]) THEN ProdTo(s, t - 1)
    ELSE FMul(ProdTo(s, t - 1), s[t])

\* s.cumprod(): NaN rows are skipped and stay NaN
CumProd(s) == [t \in Index(s) |-> IF IsNaN(s[t]) THEN FNaN ELSE ProdTo(s, t)]

\* the largest (smallest) value of s on `rows` that is not NaN; NaN if none
MaxOn(s, rows) ==
    LET valid == {s[i] : i \in {r \in rows : ~IsNaN(s[r])}}
    IN  IF valid = {} THEN FNaN
        ELSE CHOOSE v \in valid : \A w \in valid : ~FLess(v, w)
MinOn(s, rows) ==
    LET valid == {s[i] : i \in {r \in rows : ~IsNaN(s[r])}}
    IN  IF valid = {} THEN FNaN
        ELSE CHOOSE v \in valid : \A w \in valid : ~FLess(w, v)

\* s.cummax(): NaN rows are skipped and stay NaN
CumMax(s) == [t \in Index(s) |-> IF IsNaN(s[t]) THEN FNaN ELSE MaxOn(s, 1..t)]

\* 59-62
calculate_max_drawdown(equity_curve) ==
    LET change == PctChange(equity_curve)
        cumulative == CumProd([t \in Index(change) |-> FPlus(F(1), change[t])])
        running_max == CumMax(cumulative)
        drawdown == [t \in Index(cumulative) |->
                        FDiv(FMinus(cumulative[t], running_max[t]), running_max[t])]
    IN  FTimes(100, MinOn(drawdown, Index(drawdown)))

(***************************************************************************)
(* BacktestEngine.calculate_metrics, engine.py:34-55.                      *)
(***************************************************************************)
\* 40-42: trading days of a year
TradingDays == 252

\* 36: returns = portfolio['net_returns'].dropna()
CmReturns ==
    /\ pc = "cm_start"
    /\ locals' = [returns |-> DropNa(portfolio.net_returns)]
    /\ pc' = "cm_metrics"
    /\ UNCHANGED <<strategy, engine, data, signals, portfolio, pairs, metrics, history, loader>>

Positive(s) == SelectSeq(s, LAMBDA x : FPositive(x))
Negative(s) == SelectSeq(s, LAMBDA x : FNegative(x))

\* 42: (returns.mean() * 252) / (returns.std() * np.sqrt(252))
SharpeRatio(returns) ==
    Ratio(FTimes(TradingDays, Mean(returns)), FTimes(TradingDays, Variance(returns, 1)))

\* 45: returns[returns > 0].sum() / abs(returns[returns < 0].sum())
ProfitFactor(returns) == FDiv(FSum(Positive(returns)), FAbs(FSum(Negative(returns))))

\* 38-47: the metrics dictionary
CmMetrics ==
    /\ pc = "cm_metrics"
    /\ LET returns == locals.returns
           net_total == portfolio.net_total
       IN  metrics' =
               [total_return |->
                    FTimes(100, FMinus(Frac(net_total[Len(net_total)],
                                            engine.initial_capital), F(1))),
                annualized_return |-> FTimes(TradingDays * 100, Mean(returns)),
                volatility |-> Surd(F(100), FTimes(TradingDays, Variance(returns, 1))),
                sharpe_ratio |-> SharpeRatio(returns),
                max_drawdown |-> calculate_max_drawdown(net_total),
                win_rate |-> FTimes(100, Frac(Len(Positive(returns)), Len(returns))),
                profit_factor |-> ProfitFactor(returns),
                trades |-> Frac(SumTo(portfolio.trades, Len(portfolio.trades)), 2)]
    /\ pc' = "cm_var"
    /\ UNCHANGED <<strategy, engine, data, signals, portfolio, locals, pairs, history, loader>>

\* 50: metrics['var_95'] = np.percentile(returns, 5) * 100
CmVar ==
    /\ pc = "cm_var"
    /\ metrics' = ("var_95" :> FTimes(100, Percentile(locals.returns, 5))) @@ metrics
    /\ pc' = "cm_cvar"
    /\ UNCHANGED <<strategy, engine, data, signals, portfolio, locals, pairs, history, loader>>

\* 53, 55: metrics['cvar_95'] = returns[returns <= np.percentile(returns, 5)]
\* .mean() * 100; return metrics
CmCvar ==
    /\ pc = "cm_cvar"
    /\ LET var == Percentile(locals.returns, 5)
           tail == SelectSeq(locals.returns, LAMBDA x : ~FLess(var, x))
       IN  metrics' = ("cvar_95" :> FTimes(100, Mean(tail))) @@ metrics
    /\ pc' = "cm_done"
    /\ UNCHANGED <<strategy, engine, data, signals, portfolio, locals, pairs, history, loader>>

calculate_metrics ==
    \/ CmReturns
    \/ CmMetrics
    \/ CmVar
    \/ CmCvar

(***************************************************************************)
(* Inputs of calculate_metrics: a ledger of 2 to MaxCurve rows whose       *)
(* net_total takes the values of EquityValues (steps of +25 %, -20 %, 0    *)
(* and their squares), net_returns = net_total.pct_change() as             *)
(* run_backtest leaves it, and 0 or 1 units traded on a row.               *)
(***************************************************************************)
MaxCurve == 4
EquityValues == {64000, 80000, 100000}
TradeValues == {0, 1}

InitMetrics ==
    /\ pc = "cm_start"
    /\ engine = [initial_capital |-> InitialCapital, commission |-> 1, results |-> <<>>]
    /\ \E n \in 2..MaxCurve :
          \E net_total \in [1..n -> EquityValues], trades \in [1..n -> TradeValues] :
              portfolio = [index |-> 1..n,
                           trades |-> trades,
                           net_total |-> net_total,
                           net_returns |-> PctChange(net_total)]
    /\ strategy = NoObject
    /\ data = NoObject
    /\ signals = NoFrame
    /\ locals = NoObject /\ pairs = NoObject /\ metrics = NoObject
    /\ history = NoObject
    /\ loader = NoObject

SpecMetrics == InitMetrics /\ [][calculate_metrics]_vars

(***************************************************************************)
(* RiskMetrics.calculate_sortino_ratio, metrics.py:43-48, and              *)
(* RiskMetrics.calculate_beta, metrics.py:31-35.  data holds the arguments *)
(* of the call; neither method reads a field of the RiskMetrics object.    *)
(***************************************************************************)
\* 45: excess_returns = returns - target_return
RsExcess ==
    /\ pc = "rs_start"
    /\ locals' = [excess_returns |->
                     [t \in Index(data.returns) |->
                         FMinus(data.returns[t], data.target_return)]]
    /\ pc' = "rs_downside"
    /\ UNCHANGED <<strategy, engine, data, signals, portfolio, pairs, metrics, history, loader>>

\* 46: downside_returns = excess_returns[excess_returns < 0]
RsDownside ==
    /\ pc = "rs_downside"
    /\ locals' = ("downside_returns" :> Negative(locals.excess_returns)) @@ locals
    /\ pc' = "rs_deviation"
    /\ UNCHANGED <<strategy, engine, data, signals, portfolio, pairs, metrics, history, loader>>

\* 47: downside_deviation = np.sqrt((downside_returns ** 2).mean()); the
\* mean of an empty series is NaN, and so is its square root
RsDeviation ==
    /\ pc = "rs_deviation"
    /\ locals' = ("downside_deviation" :>
                     Surd(F(1), Mean(FSquares(locals.downside_returns)))) @@ locals
    /\ pc' = "rs_return"
    /\ UNCHANGED <<strategy, engine, data, signals, portfolio, pairs, metrics, history, loader>>

\* the number 0
RatioZero == Ratio(F(0), F(1))

\* 48: excess_returns.mean() / downside_deviation if downside_deviation != 0
\* else 0; a square root is 0 when its radicand is, and NaN != 0 is True
SortinoRatio(excess_returns, downside_deviation) ==
    IF downside_deviation.sq # F(0)
    THEN Ratio(Mean(excess_returns), downside_deviation.sq)
    ELSE RatioZero

RsReturn ==
    /\ pc = "rs_return"
    /\ metrics' = [sortino_ratio |->
                      SortinoRatio(locals.excess_returns, locals.downside_deviation)]
    /\ pc' = "rs_done"
    /\ UNCHANGED <<strategy, engine, data, signals, portfolio, locals, pairs, history, loader>>

calculate_sortino_ratio ==
    \/ RsExcess
    \/ RsDownside
    \/ RsDeviation
    \/ RsReturn

FProducts(x, y) == [t \in Index(x) |-> FMul(x[t], y[t])]

\* the covariance of x and y with n - ddof in the denominator:
\* (n * sum(x * y) - sum(x) * sum(y)) / (n * (n - ddof))
Covariance(x, y, ddof) ==
    LET n == Len(x)
    IN  FDiv(FMinus(FTimes(n, FSum(FProducts(x, y))), FMul(FSum(x), FSum(y))),
             F(n * (n - ddof)))

\* 33: covariance = np.cov(portfolio_returns, market_returns)[0, 1]; np.cov
\* divides by n - 1
RbCovariance ==
    /\ pc = "rb_start"
    /\ locals' = [covariance |->
                     Covariance(data.portfolio_returns, data.market_returns, 1)]
    /\ pc' = "rb_variance"
    /\ UNCHANGED <<strategy, engine, data, signals, portfolio, pairs, metrics, history, loader>>

\* 34: market_variance = np.var(market_returns); np.var divides by n
RbVariance ==
    /\ pc = "rb_variance"
    /\ locals' = ("market_variance" :> Variance(data.market_returns, 0)) @@ locals
    /\ pc' = "rb_return"
    /\ UNCHANGED <<strategy, engine, data, signals, portfolio, pairs, metrics, history, loader>>

\* 35: return covariance / market_variance
RbReturn ==
    /\ pc = "rb_return"
    /\ metrics' = [beta |-> FDiv(locals.covariance, locals.market_variance)]
    /\ pc' = "rb_done"
    /\ UNCHANGED <<strategy, engine, data, signals, portfolio, locals, pairs, history, loader>>

calculate_beta ==
    \/ RbCovariance
    \/ RbVariance
    \/ RbReturn

(***************************************************************************)
(* Inputs of the two risk metrics: series of 1 to MaxReturns returns in    *)
(* units of 1 / ReturnDen.                                                 *)
(***************************************************************************)
MaxReturns == 3
ReturnDen == 100
\* returns of -2 % ... 2 %, market returns of -1 %, 0, 1 %, targets 0 and 1 %
ReturnValues == {Frac(k, ReturnDen) : k \in -2..2}
MarketValues == {Frac(k, ReturnDen) : k \in -1..1}
TargetValues == {Frac(k, ReturnDen) : k \in 0..1}

InitSortino ==
    /\ pc = "rs_start"
    /\ \E n \in 1..MaxReturns :
          data \in [returns : [1..n -> ReturnValues], target_return : TargetValues]

InitBeta ==
    /\ pc = "rb_start"
    /\ \E n \in 1..MaxReturns :
          data \in [portfolio_returns : [1..n -> ReturnValues],
                    market_returns : [1..n -> MarketValues]]

InitRiskMetrics ==
    /\ InitSortino \/ InitBeta
    /\ strategy = NoObject
    /\ engine = NoObject
    /\ signals = NoFrame
    /\ portfolio = NoFrame
    /\ locals = NoObject /\ pairs = NoObject /\ metrics = NoObject
    /\ history = NoObject
    /\ loader = NoObject

SpecRiskMetrics ==
    InitRiskMetrics /\ [][calculate_sortino_ratio \/ calculate_beta]_vars

(***************************************************************************)
(* Calls in sequence on the same objects, as main.py makes them: one       *)
(* strategy object and one BacktestEngine are constructed, then the methods *)
(* are called any number of times in any order, each with its own          *)
(* arguments.  Between two calls pc is "idle"; the caller's tables are     *)
(* dropped when a call has returned.  history keeps the first call that    *)
(* returned (its method, arguments and result) and counts the calls.       *)
(***************************************************************************)
\* rows of the tables passed in, and calls counted
CoreRows == 2
CoreCalls == 3
CorePrices == {50}
CorePositions == {0, 1}
CoreCloses == {1, 2}
CoreEquity == {80000, 100000}
CoreVam == {FNaN, F(-1), F(1)}

Done == {"bt_done", "mr_done", "mo_done", "pt_done", "fp_done", "cm_done"}

IsMeanReversion(object) == "positions" \in DOMAIN object
IsMomentum(object) == "holding_period" \in DOMAIN object
IsPairs(object) == ~IsMeanReversion(object) /\ ~IsMomentum(object)

\* portfolio = engine.run_backtest(data, signals)
CallRunBacktest ==
    /\ pc = "idle"
    /\ \E n \in 1..CoreRows :
          /\ data' \in [Close : [1..n -> CorePrices]]
          /\ signals' \in [position : [1..n -> CorePositions]]
    /\ pc' = "bt_start"
    /\ UNCHANGED <<strategy, engine, portfolio, locals, pairs, metrics, history, loader>>

\* metrics = engine.calculate_metrics(portfolio)
CallCalculateMetrics ==
    /\ pc = "idle"
    /\ \E n \in 2..(CoreRows + 1) :
          \E net_total \in [1..n -> CoreEquity] :
              portfolio' = [index |-> 1..n,
                            trades |-> [t \in 1..n |-> 0],
                            net_total |-> net_total,
                            net_returns |-> PctChange(net_total)]
    /\ pc' = "cm_start"
    /\ UNCHANGED <<strategy, engine, data, signals, locals, pairs, metrics, history, loader>>

\* signals = strategy.generate_signals(data), mean reversion
CallMrGenerate ==
    /\ pc = "idle"
    /\ IsMeanReversion(strategy)
    /\ \E n \in 1..CoreRows : data' \in [Close : [1..n -> CoreCloses]]
    /\ pc' = "mr_start"
    /\ UNCHANGED <<strategy, engine, signals, portfolio, locals, pairs, metrics, history, loader>>

\* signals = strategy.generate_signals(data), momentum, from line 26 on
CallMoGenerate ==
    /\ pc = "idle"
    /\ IsMomentum(strategy)
    /\ \E m \in 1..CoreRows :
          \E tail \in [1..m -> CoreVam] :
              signals' = [index |-> 1..(strategy.lookback + m),
                          vol_adjusted_momentum |->
                              [t \in 1..(strategy.lookback + m) |->
                                  IF t <= strategy.lookback THEN FNaN
                                  ELSE tail[t - strategy.lookback]]]
    /\ pc' = "mo_threshold"
    /\ UNCHANGED <<strategy, engine, data, portfolio, locals, pairs, metrics, history, loader>>

\* signals = strategy.generate_signals(stock1, stock2, hedge_ratio), pairs
CallPtGenerate ==
    /\ pc = "idle"
    /\ IsPairs(strategy)
    /\ \E n \in 1..CoreRows :
          data' \in [stock1 : [Close : [1..n -> CoreCloses]],
                     stock2 : [Close : [1..n -> {1}]],
                     hedge_ratio : {Frac(3, 2)}]
    /\ pc' = "pt_start"
    /\ UNCHANGED <<strategy, engine, signals, portfolio, locals, pairs, metrics, history, loader>>

\* pairs = strategy.find_cointegrated_pairs(stock_data)
CallFindPairs ==
    /\ pc = "idle"
    /\ IsPairs(strategy)
    /\ \E table1 \in SymbolTables(SymbolNames[1]), table2 \in SymbolTables(SymbolNames[2]) :
          data' = [data_dict |-> <<table1, table2>>,
                   p_value_threshold |-> DefaultPValueThreshold]
    /\ pc' = "fp_start"
    /\ UNCHANGED <<strategy, engine, signals, portfolio, locals, pairs, metrics, history, loader>>

\* the arguments of the call that has returned; for the momentum generator
\* the column computed from its argument, for the pair scan also what the
\* library tests gave on the data
Arguments ==
    CASE pc = "bt_done" -> [data |-> data, signals |-> signals]
      [] pc = "cm_done" -> [portfolio |-> portfolio]
      [] pc = "mo_done" -> [vol_adjusted_momentum |-> signals.vol_adjusted_momentum]
      [] pc = "fp_done" -> [data |-> data,
                            tests |-> [k \in 1..Len(locals.log) |-> locals.log[k].tests]]
      [] OTHER -> [data |-> data]

\* the value the call returned
Result ==
    CASE pc = "bt_done" -> portfolio
      [] pc = "cm_done" -> metrics
      [] pc = "fp_done" -> pairs
      [] OTHER -> signals

\* the call returns: the caller takes the result
Return ==
    /\ pc \in Done
    /\ history' =
          IF history = NoObject
          THEN [method |-> pc, arguments |-> Arguments, result |-> Result, calls |-> 1]
          ELSE [history EXCEPT !.calls = IF @ < CoreCalls THEN @ + 1 ELSE @]
    /\ pc' = "idle"
    /\ data' = NoObject /\ signals' = NoFrame /\ portfolio' = NoFrame
    /\ locals' = NoObject /\ pairs' = NoObject /\ metrics' = NoObject
    /\ UNCHANGED <<strategy, engine, loader>>

InitCore ==
    /\ pc = "idle"
    /\ strategy \in {MrStrategy(2, <<1, 0>>),
                     PairsStrategy(ScanLookback, <<4, 1>>),
                     [lookback |-> MomentumLookback, holding_period |-> HoldingPeriod]}
    /\ engine = [initial_capital |-> InitialCapital, commission |-> 1, results |-> <<>>]
    /\ data = NoObject /\ signals = NoFrame /\ portfolio = NoFrame
    /\ locals = NoObject /\ pairs = NoObject /\ metrics = NoObject
    /\ history = NoObject
    /\ loader = NoObject

NextCore ==
    \/ CallRunBacktest
    \/ CallCalculateMetrics
    \/ CallMrGenerate
    \/ CallMoGenerate
    \/ CallPtGenerate
    \/ CallFindPairs
    \/ run_backtest
    \/ calculate_metrics
    \/ mr_generate_signals
    \/ mo_generate_signals
    \/ pt_generate_signals
    \/ find_cointegrated_pairs
    \/ Return

SpecCore == InitCore /\ [][NextCore]_vars

(***************************************************************************)
(* PairsTradingStrategy.calculate_half_life, pairs_trading.py:61-80, one   *)
(* statement at a time.  data holds the argument spread; locals holds      *)
(* spread_lag, spread_diff, the outcome of np.polyfit and the value        *)
(* returned.                                                               *)
(***************************************************************************)
MaxSpread == 4

\* s[1:]: the rows after the first
Tail1(s) == [t \in 1..(IF Len(s) = 0 THEN 0 ELSE Len(s) - 1) |-> s[t + 1]]

\* 64-67: spread_lag = spread.shift(1); spread_diff = spread - spread_lag;
\* both lose their first row
HlLag ==
    /\ pc = "hl_start"
    /\ LET spread_lag == Shift1(data.spread)
           spread_diff == [t \in Index(data.spread) |->
                              FSub(data.spread[t], spread_lag[t])]
       IN  locals' = [spread_lag |-> Tail1(spread_lag),
                      spread_diff |-> Tail1(spread_diff),
                      model |-> NotCalled(FNaN),
                      returned |-> 0]
    /\ pc' = "hl_len"
    /\ UNCHANGED <<strategy, engine, data, signals, portfolio, pairs, metrics, history, loader>>

\* 69-70: if len(spread_lag) < 2: return 30
HlShort ==
    /\ pc = "hl_len"
    /\ Len(locals.spread_lag) < 2
    /\ locals' = [locals EXCEPT !.returned = DefaultHalfLife]
    /\ pc' = "hl_done"
    /\ UNCHANGED <<strategy, engine, data, signals, portfolio, pairs, metrics, history, loader>>

\* the least-squares slope of y on x where x is not constant:
\* (n * sum(x * y) - sum(x) * sum(y)) / (n * sum(x * x) - sum(x) ** 2)
LeastSquaresSlope(x, y) ==
    LET n == Len(x)
    IN  FDiv(FMinus(FTimes(n, FSum(FProducts(x, y))), FMul(FSum(x), FSum(y))),
             FMinus(FTimes(n, FSum(FSquares(x))), FMul(FSum(x), FSum(x))))

\* what floating-point least squares can leave of a slope that is exactly 0
Residue == Frac(1, 1000)

\* what np.polyfit(x, y, 1)[0] gives on two or more points.  With a NaN
\* among them the least squares raises or gives NaN, as the build has it.
\* When x is constant the fit is rank deficient and numpy gives the
\* minimum-norm solution of its column-scaled system: mean(y) / (2 * x).
\* A slope that is exactly 0 comes out as 0 or as a rounding residue of
\* either sign.
Polyfit(x, y) ==
    IF \E t \in Index(x) : IsNaN(x[t]) \/ IsNaN(y[t])
    THEN {Raises(FNaN), Gives(FNaN)}
    ELSE IF \A t \in Index(x) : x[t] = x[1]
    THEN {Gives(FDiv(FSum(y), FTimes(2 * Len(x), x[1])))}
    ELSE IF LeastSquaresSlope(x, y) = F(0)
    THEN {Gives(F(0)), Gives(Residue), Gives(FNeg(Residue))}
    ELSE {Gives(LeastSquaresSlope(x, y))}

\* 72: model = np.polyfit(spread_lag, spread_diff, 1); an exception goes
\* to line 79-80: return 30
HlFit ==
    /\ pc = "hl_len"
    /\ Len(locals.spread_lag) >= 2
    /\ \E fit \in Polyfit(locals.spread_lag, locals.spread_diff) :
          /\ locals' = [locals EXCEPT !.model = fit,
                           !.returned = IF fit.raises THEN DefaultHalfLife ELSE 0]
          /\ pc' = IF fit.raises THEN "hl_done" ELSE "hl_slope"
    /\ UNCHANGED <<strategy, engine, data, signals, portfolio, pairs, metrics, history, loader>>

\* 74-75: if model[0] == 0: return 30
HlZero ==
    /\ pc = "hl_slope"
    /\ locals.model.value = F(0)
    /\ locals' = [locals EXCEPT !.returned = DefaultHalfLife]
    /\ pc' = "hl_done"
    /\ UNCHANGED <<strategy, engine, data, signals, portfolio, pairs, metrics, history, loader>>

\* 77-80: half_life = -np.log(2) / model[0]; return max(1, int(half_life));
\* int(NaN) raises, and line 79 catches it: return 30
HlReturn ==
    /\ pc = "hl_slope"
    /\ locals.model.value # F(0)
    /\ locals' = [locals EXCEPT !.returned =
                     IF IsNaN(locals.model.value) THEN DefaultHalfLife
                     ELSE HalfLifeOf(locals.model.value)]
    /\ pc' = "hl_done"
    /\ UNCHANGED <<strategy, engine, data, signals, portfolio, pairs, metrics, history, loader>>

half_life_steps == HlLag \/ HlShort \/ HlFit \/ HlZero \/ HlReturn

SpreadValues == {FNaN, F(1), F(2), F(4)}

InitHalfLife ==
    /\ pc = "hl_start"
    /\ strategy = PairsStrategy(PairsLookback, <<4, 1>>)
    /\ \E n \in 0..MaxSpread :
          \E spread \in [1..n -> SpreadValues] : data = [spread |-> spread]
    /\ engine = NoObject
    /\ signals = NoFrame
    /\ portfolio = NoFrame
    /\ locals = NoObject /\ pairs = NoObject /\ metrics = NoObject
    /\ history = NoObject
    /\ loader = NoObject

SpecHalfLife == InitHalfLife /\ [][half_life_steps]_vars

(***************************************************************************)
(* DataLoader.get_stock_data, src/data/data_loader.py:6-23.  loader holds  *)
(* self.cache, a dict from symbol to table; locals holds the arguments of  *)
(* the running call, the loop position and the dict data being built;      *)
(* history counts the calls made on the loader.  yf.download is a remote   *)
(* service: the table it gives is known by the request it answers, and it  *)
(* can fail.  Dates are numbered days.                                     *)
(***************************************************************************)
MaxLoads == 3
MaxList == 2

\* a symbols argument that is one str, or a list of str
Str(s) == [str |-> s]
List(l) == [list |-> l]
\* 11: isinstance(symbols, str)
IsStr(symbols) == "str" \in DOMAIN symbols

\* 11-12: if isinstance(symbols, str): symbols = [symbols]
AsList(symbols) == IF IsStr(symbols) THEN <<symbols.str>> ELSE symbols.list

\* 17: what yf.download(symbol, start=..., end=..., interval=...) answers
Download(symbol, start_date, end_date, interval) ==
    [request |-> [symbol |-> symbol, start |-> start_date, end |-> end_date,
                  interval |-> interval],
     columns |-> {"Close"}]

\* 18-19: df['Returns'] = ...; df['Log_Returns'] = ...
WithReturns(df) == [df EXCEPT !.columns = @ \cup {"Returns", "Log_Returns"}]

\* 20: self.cache[symbol] = df
Cached(cache, symbol, df) == (symbol :> df) @@ cache

LoadSymbols == {"AAPL", "MSFT"}
StartDates == {1, 2}
EndDates == {3, 4}
\* data_loader.py:10  interval='1d'
Intervals == {"1d", "1h"}

SymbolArguments ==
    {Str(s) : s \in LoadSymbols}
        \cup {List(l) : l \in UNION {[1..n -> LoadSymbols] : n \in 0..MaxList}}

\* 10-14: a call of get_stock_data on the loader, after any call that has
\* returned or raised; data = {}
GsCall ==
    /\ pc \in {"gs_idle", "gs_done", "gs_raised"}
    /\ history.calls < MaxLoads
    /\ \E symbols \in SymbolArguments, start_date \in StartDates,
          end_date \in EndDates, interval \in Intervals :
          locals' = [symbols |-> AsList(symbols), start_date |-> start_date,
                     end_date |-> end_date, interval |-> interval,
                     i |-> 1, data |-> <<>>]
    /\ history' = [history EXCEPT !.calls = @ + 1]
    /\ pc' = "gs_loop"
    /\ UNCHANGED <<strategy, engine, data, signals, portfolio, pairs, metrics, loader>>

\* 15: for symbol in symbols
GsSymbol == locals.symbols[locals.i]

\* 16-21: symbol not in self.cache: download, store, data[symbol] = the
\* stored table.  An exception of the download or of the column arithmetic
\* leaves the method; nothing catches it.
GsMiss ==
    /\ pc = "gs_loop"
    /\ locals.i <= Len(locals.symbols)
    /\ GsSymbol \notin DOMAIN loader.cache
    /\ \/ /\ loader' = [loader EXCEPT !.cache =
                           Cached(@, GsSymbol,
                                  WithReturns(Download(GsSymbol, locals.start_date,
                                                       locals.end_date,
                                                       locals.interval)))]
          /\ locals' = [locals EXCEPT !.data = (GsSymbol :> loader'.cache[GsSymbol]) @@ @,
                                      !.i = @ + 1]
          /\ pc' = "gs_loop"
       \/ /\ pc' = "gs_raised"
          /\ UNCHANGED <<loader, locals>>
    /\ UNCHANGED <<strategy, engine, data, signals, portfolio, pairs, metrics, history>>

\* 16, 21: symbol in self.cache: data[symbol] = self.cache[symbol]
GsHit ==
    /\ pc = "gs_loop"
    /\ locals.i <= Len(locals.symbols)
    /\ GsSymbol \in DOMAIN loader.cache
    /\ locals' = [locals EXCEPT !.data = (GsSymbol :> loader.cache[GsSymbol]) @@ @,
                                !.i = @ + 1]
    /\ pc' = "gs_loop"
    /\ UNCHANGED <<strategy, engine, data, signals, portfolio, pairs, metrics, history, loader>>

\* 23: return data
GsReturn ==
    /\ pc = "gs_loop"
    /\ locals.i > Len(locals.symbols)
    /\ pc' = "gs_done"
    /\ UNCHANGED <<strategy, engine, data, signals, portfolio, locals, pairs, metrics, history, loader>>

get_stock_data == GsCall \/ GsMiss \/ GsHit \/ GsReturn

\* 7-8: self.cache = {}
InitDataLoader ==
    /\ pc = "gs_idle"
    /\ loader = [cache |-> <<>>]
    /\ history = [calls |-> 0]
    /\ strategy = NoObject
    /\ engine = NoObject
    /\ data = NoObject
    /\ signals = NoFrame
    /\ portfolio = NoFrame
    /\ locals = NoObject /\ pairs = NoObject /\ metrics = NoObject

SpecDataLoader == InitDataLoader /\ [][get_stock_data]_vars

(***************************************************************************)
(* Claims about the ledger.                                                *)
(***************************************************************************)
Ledger == portfolio

\* the position change the ledger is specified with: none on the first row
Delta(t) ==
    IF t = 1 THEN 0 ELSE Ledger.positions[t] - Ledger.positions[t - 1]

RECURSIVE Spent(_)
\* money paid for position changes up to and including row t
Spent(t) == IF t = 0 THEN 0 ELSE Spent(t - 1) + Delta(t) * Ledger.price[t] * UnitSize

RECURSIVE CommissionPaid(_)
\* sum of the commission column over the rows up to and including t
CommissionPaid(t) == IF t = 0 THEN 0 ELSE CommissionPaid(t - 1) + Ledger.commission[t]

\* C1: at every timestamp of the returned ledger total = holdings + cash and
\* net_total = total minus the commissions of all rows up to and including it.
C1_LedgerIdentity ==
    pc = "bt_done" =>
        \A t \in Ledger.index :
            /\ Ledger.total[t] = Ledger.holdings[t] + Ledger.cash[t]
            /\ Ledger.net_total[t] = Ledger.total[t] - CommissionPaid(t)

\* a returned ledger with two trades, hence two commissions to accumulate
C1_Witness ==
    /\ pc = "bt_done"
    /\ \E s, t \in Ledger.index :
          s < t /\ Ledger.commission[s] > 0 /\ Ledger.commission[t] > 0

\* C2: trades is the absolute position change, commission is trades * price *
\* 1000 * commission_rate, cash is initial_capital minus the cumulated cost of
\* the position changes, and the first row has no position change whatever
\* its position is.
C2_TradesCommissionCash ==
    pc = "bt_done" =>
        \A t \in Ledger.index :
            /\ Ledger.trades[t] = Abs(Delta(t))
            /\ Ledger.commission[t] * CommissionDen
                   = Ledger.trades[t] * Ledger.price[t] * UnitSize * engine.commission
            /\ Ledger.cash[t] = engine.initial_capital - Spent(t)

\* a returned ledger that starts with a position and changes it later
C2_Witness ==
    /\ pc = "bt_done"
    /\ Ledger.positions[1] # 0
    /\ Ledger.trades[1] = 0
    /\ Ledger.cash[1] = engine.initial_capital
    /\ \E t \in Ledger.index : Ledger.trades[t] > 0

\* position 0, then 1 for one or more rows, then 0 again
RoundTrip(positions) ==
    \E i, j \in Index(positions) :
        /\ 1 < i /\ i <= j /\ j < Len(positions)
        /\ \A t \in Index(positions) :
              positions[t] = IF i <= t /\ t <= j THEN 1 ELSE 0

RoundTripAt50 ==
    /\ engine.commission = 1
    /\ \A t \in Index(data.Close) : data.Close[t] = 50
    /\ RoundTrip(signals.position)

\* C3: with commission_rate 0.001 and the price constant at 50, one round trip
\* of size 1 pays 100 in commission in all, and the final net_total is the
\* final total minus 100.
C3_RoundTripCommission ==
    (pc = "bt_done" /\ RoundTripAt50) =>
        LET n == Len(Ledger.positions)
        IN  /\ CommissionPaid(n) = 100
            /\ Ledger.net_total[n] = Ledger.total[n] - 100

\* a returned ledger of a round trip held for more than one row
C3_Witness ==
    /\ pc = "bt_done"
    /\ RoundTripAt50
    /\ \E t \in Index(signals.position) :
          t > 1 /\ signals.position[t] = 1 /\ signals.position[t - 1] = 1

(***************************************************************************)
(* Claims about the mean-reversion positions.                              *)
(***************************************************************************)
Z(t) == signals.zscore[t]
Pos(t) == signals.position[t]
Rows == signals.index
LastRow == Cardinality(signals.index)

\* C4: the position carries forward: after a long row it stays +1 on every
\* row until one with z > -exit_zscore, after a short row it stays -1 until a
\* row with z < exit_zscore (stated on the rows whose z-score is defined).
C4_CarryForward ==
    pc = "mr_done" =>
        \A t \in Rows \ {1} :
            ~ZIsNaN(Z(t)) =>
                /\ (Pos(t - 1) = F(1) /\ ~ZGreater(Z(t), -strategy.exit_zscore))
                       => Pos(t) = F(1)
                /\ (Pos(t - 1) = F(-1) /\ ~ZLess(Z(t), strategy.exit_zscore))
                       => Pos(t) = F(-1)

\* C5: with entry_zscore > exit_zscore >= 0 the position never goes from +1 to
\* -1 or from -1 to +1 on consecutive rows.
C5_NoDirectFlip ==
    (/\ pc = "mr_done"
     /\ strategy.entry_zscore > strategy.exit_zscore
     /\ strategy.exit_zscore >= 0) =>
        \A t \in Rows \ {1} :
            /\ ~(Pos(t - 1) = F(1) /\ Pos(t) = F(-1))
            /\ ~(Pos(t - 1) = F(-1) /\ Pos(t) = F(1))

\* a long entry directly followed by a short entry, which the exit turned flat
C5_Witness ==
    /\ pc = "mr_done"
    /\ \E t \in Rows \ {1} :
          /\ signals.long_entry[t - 1] /\ signals.short_entry[t]
          /\ Pos(t - 1) = F(1) /\ Pos(t) = F(0)

Constant(prices) == \A t \in Index(prices) : prices[t] = prices[1]

\* C6: the position is 0 on every row whose z-score is undefined: the rows
\* before the window is full, every row of a series shorter than lookback,
\* every row of a constant price series.
C6_FlatWhereUndefined ==
    pc = "mr_done" =>
        /\ \A t \in Rows : ZIsNaN(Z(t)) => Pos(t) = F(0)
        /\ \A t \in Rows : t < strategy.lookback => ZIsNaN(Z(t)) /\ Pos(t) = F(0)
        /\ LastRow < strategy.lookback => \A t \in Rows : Pos(t) = F(0)
        /\ (data # NoObject /\ Constant(data.Close))
               => \A t \in Rows : ZIsNaN(Z(t)) /\ Pos(t) = F(0)

\* a constant price series that fills the window more than once
C6_Witness ==
    /\ pc = "mr_done"
    /\ data # NoObject
    /\ Constant(data.Close)
    /\ Len(data.Close) > strategy.lookback
    /\ \A t \in Rows : Pos(t) = F(0)

\* undefined on rows 1..a (warm-up and flat stretch), above 2.0 on the k rows
\* after them, below 0.5 and above -2.0 on all rows after those
SpikeTrace(a, k) ==
    /\ a >= strategy.lookback - 1
    /\ k >= 1
    /\ a + k <= LastRow
    /\ \A t \in Rows :
          /\ t <= a => ZIsNaN(Z(t))
          /\ (a < t /\ t <= a + k) => ZGreater(Z(t), 2 * ZDen)
          /\ t > a + k => ZLess(Z(t), 1) /\ ZGreater(Z(t), -2 * ZDen)

DefaultParameters ==
    /\ strategy.lookback = DefaultLookback
    /\ strategy.entry_zscore = 2 * ZDen
    /\ 2 * strategy.exit_zscore = ZDen

\* C7: with lookback 20, entry 2.0, exit 0.5 and a z-score trace that is
\* undefined, then above 2.0 for k >= 1 rows, then below 0.5 (above -2.0),
\* the position is 0 before the spike, -1 on its k rows, and 0 after it.
C7_SpikeScenario ==
    (pc = "mr_done" /\ DefaultParameters) =>
        \A a \in 0..LastRow, k \in 1..LastRow :
            SpikeTrace(a, k) =>
                \A t \in Rows :
                    Pos(t) = IF a < t /\ t <= a + k THEN F(-1) ELSE F(0)

\* a spike of two rows followed by a row back under 0.5
C7_Witness ==
    /\ pc = "mr_done"
    /\ DefaultParameters
    /\ \E a \in 0..LastRow : SpikeTrace(a, 2) /\ a + 2 < LastRow

(***************************************************************************)
(* Claims about the momentum signals.                                      *)
(***************************************************************************)
Vam(t) == signals.vol_adjusted_momentum[t]

\* C8: every position a generator returns is defined; where no signal can be
\* computed yet it is 0, never a missing value.
C8_PositionDefined ==
    pc \in {"mo_done", "mr_done"} => \A t \in Rows : ~IsNaN(Pos(t))

\* the quantile of the absolute values
AbsMomentumThreshold(vam) ==
    LET a == [t \in Index(vam) |-> FAbs(vam[t])]
    IN  [t \in Index(vam) |-> RollingQuantileAt(a, QuantileWindow, t)]

\* the signal the threshold over the absolute values gives
ClaimedSignal(t) ==
    LET thr == AbsMomentumThreshold(signals.vol_adjusted_momentum)[t]
    IN  IF FLess(thr, Vam(t)) THEN 1
        ELSE IF FLess(Vam(t), FNeg(thr)) THEN -1
        ELSE 0

\* C9: the threshold is the rolling 252-row 80th percentile of the absolute
\* vol_adjusted_momentum, never negative, and the signal is +1 above it, -1
\* below its negation, 0 otherwise.
C9_SignalFromAbsThreshold ==
    pc = "mo_done" =>
        \A t \in Rows :
            /\ signals.momentum_threshold[t]
                   = AbsMomentumThreshold(signals.vol_adjusted_momentum)[t]
            /\ ~FNegative(signals.momentum_threshold[t])
            /\ signals.signal[t] = ClaimedSignal(t)

\* C10: every momentum position is signal * min(|vol_adjusted_momentum| / 2, 1):
\* it lies in [-1, 1], has the sign of the signal, and has magnitude 1 when
\* |vol_adjusted_momentum| >= 2 and the signal is not 0.
C10_PositionBounded ==
    pc = "mo_done" =>
        \A t \in Rows :
            /\ ~IsNaN(Pos(t))
            /\ ~FLess(Pos(t), F(-1)) /\ ~FLess(F(1), Pos(t))
            /\ Sign(Pos(t).n) = signals.signal[t]
            /\ (signals.signal[t] # 0 /\ ~FLess(FAbs(Vam(t)), F(2)))
                   => FAbs(Pos(t)) = F(1)

(***************************************************************************)
(* Claims about the pairs positions.                                       *)
(***************************************************************************)
Pos1(t) == signals.position1[t]
Pos2(t) == signals.position2[t]

\* C11: the two legs are coupled: on every row position1 is +1, -1 or 0 and
\* position2 = -hedge_ratio * position1.
C11_LegsCoupled ==
    pc = "pt_done" =>
        \A t \in Rows :
            /\ Pos1(t) \in {F(1), F(-1), F(0)}
            /\ Pos2(t) = FMul(FNeg(data.hedge_ratio), Pos1(t))

\* a short row after a row where the long entry and the exit both hold
C11_Witness ==
    /\ pc = "pt_done"
    /\ \E t \in Rows : Pos1(t) = F(-1) /\ Pos2(t) = data.hedge_ratio
    /\ \E t \in Rows : /\ signals.long_spread[t]
                       /\ signals.exit_spread[t]
                       /\ Pos1(t) = F(0) /\ Pos2(t) = F(0)

\* C12: the pair's positions carry forward: a row whose z-score is defined
\* with exit_zscore <= |z| <= entry_zscore leaves position1 and position2 as
\* they were on the row before it.
C12_PairCarryForward ==
    pc = "pt_done" =>
        \A t \in Rows \ {1} :
            (/\ ~ZIsNaN(Z(t))
             /\ ~ZLess(ZAbs(Z(t)), strategy.exit_zscore)
             /\ ~ZGreater(ZAbs(Z(t)), strategy.entry_zscore)) =>
                /\ Pos1(t) = Pos1(t - 1)
                /\ Pos2(t) = Pos2(t - 1)

(***************************************************************************)
(* Claims about the pair scan.                                             *)
(***************************************************************************)
\* the evaluations of the scan that appended a pair, in scan order
Appended == SelectSeq(locals.log, LAMBDA e : e.outcome = "append")

\* C13: the returned list is ascending by p_value: no pair has a smaller
\* p_value than the pair before it.
C13_SortedByPValue ==
    pc = "fp_done" =>
        \A k \in 1..(Len(pairs) - 1) : pairs[k].p_value <= pairs[k + 1].p_value

\* a pair with the larger p-value was found first, and a pair failed
C13_Witness ==
    /\ pc = "fp_done"
    /\ Len(Appended) >= 2
    /\ Appended[1].tests.coint.value > Appended[2].tests.coint.value
    /\ \E k \in 1..Len(locals.log) : locals.log[k].outcome = "raise"

\* the tables of the evaluation e of the log, and the pair it is about
Table1(e) == data.data_dict[e.i]
Table2(e) == data.data_dict[e.j]
SymbolsOf(e) == <<Table1(e).symbol, Table2(e).symbol>>
Evaluations == {locals.log[k] : k \in 1..Len(locals.log)}
\* the positions of the returned list that hold the pair of evaluation e
Reported(e) == {m \in 1..Len(pairs) : pairs[m].pair = SymbolsOf(e)}

\* both close series exist and are not empty, they share at least lookback
\* dates, and both tests gave a p-value strictly below the threshold
Qualifies(e) ==
    /\ HasClose(Table1(e)) /\ ~Empty(Table1(e))
    /\ HasClose(Table2(e)) /\ ~Empty(Table2(e))
    /\ Cardinality(Table1(e).valid \cap Table2(e).valid) >= strategy.lookback
    /\ Returned(e.tests.coint) /\ e.tests.coint.value < data.p_value_threshold
    /\ Returned(e.tests.adfuller) /\ e.tests.adfuller.value < data.p_value_threshold

\* C14: every pair i < j of the input is evaluated exactly once, a pair is
\* returned if and only if its series are non-empty, share at least lookback
\* dates and pass both tests strictly below the threshold; no symbol is
\* paired with itself and no pair is returned twice.
C14_ReturnedIffQualifies ==
    pc = "fp_done" =>
        /\ \A i, j \in 1..NumSymbols :
              Cardinality({k \in 1..Len(locals.log) :
                              locals.log[k].i = i /\ locals.log[k].j = j})
                  = IF i < j THEN 1 ELSE 0
        /\ \A e \in Evaluations : (Reported(e) # {}) <=> Qualifies(e)
        /\ \A m \in 1..Len(pairs) :
              /\ pairs[m].pair[1] # pairs[m].pair[2]
              /\ \E e \in Evaluations : pairs[m].pair = SymbolsOf(e)
              /\ \A k \in 1..Len(pairs) : pairs[k].pair = pairs[m].pair => k = m

\* one pair is returned and another, of two series long enough, shares one
\* date too few
C14_Witness ==
    /\ pc = "fp_done"
    /\ Len(pairs) = 1
    /\ \E e \in Evaluations :
          /\ Cardinality(Table1(e).valid) >= strategy.lookback
          /\ Cardinality(Table2(e).valid) >= strategy.lookback
          /\ Cardinality(Table1(e).valid \cap Table2(e).valid) = strategy.lookback - 1

\* an evaluation in which a statement of the pair's evaluation raised
Raised(e) ==
    \/ ~HasClose(Table1(e)) \/ ~HasClose(Table2(e))
    \/ e.tests.coint.raises \/ e.tests.polyfit.raises \/ e.tests.adfuller.raises
\* ... or the computation of the half-life did
Failed(e) == Raised(e) \/ e.tests.fit.raises

\* the scan did not end with an exception, evaluated every pair, and reports
\* every pair that qualifies and did not fail, once, with its own values
ScanIsolated ==
    /\ pc # "fp_raised"
    /\ pc = "fp_done" =>
          /\ Len(locals.log) * 2 = NumSymbols * (NumSymbols - 1)
          /\ \A e \in Evaluations :
                (Qualifies(e) /\ ~Failed(e)) =>
                    \E m \in 1..Len(pairs) :
                        /\ Reported(e) = {m}
                        /\ pairs[m].p_value = e.tests.coint.value
                        /\ pairs[m].hedge_ratio = e.tests.polyfit.value

\* C15 as stated: a failure while a pair is evaluated (missing Close column,
\* cointegration test, regression, ADF test or half-life computation
\* raising) does not abort the scan, the failing pair is not returned, and
\* the other pairs are reported as without it.
C15_FailingPairAbsent ==
    /\ ScanIsolated
    /\ pc = "fp_done" => \A e \in Evaluations : Failed(e) => Reported(e) = {}

\* C15 amended: a failure of the Close lookup, the cointegration test, the
\* regression or the ADF test does not abort the scan and the failing pair
\* is not returned; a failure inside the half-life computation is caught
\* there and the pair is returned with the default half-life of 30; the
\* other pairs are reported as without the failing pair.
C15_FailureIsolated ==
    /\ ScanIsolated
    /\ pc = "fp_done" =>
          \A e \in Evaluations :
              /\ Raised(e) => Reported(e) = {}
              /\ (Qualifies(e) /\ e.tests.fit.raises) =>
                    \E m \in Reported(e) : pairs[m].half_life = DefaultHalfLife

\* a pair failed in the cointegration test, the half-life of another failed,
\* and a third pair is returned with its fitted half-life
C15_Witness ==
    /\ pc = "fp_done"
    /\ \E e \in Evaluations : e.tests.coint.raises
    /\ \E e \in Evaluations : e.tests.fit.raises /\ Reported(e) # {}
    /\ \E e \in Evaluations :
          /\ Returned(e.tests.fit)
          /\ \E m \in Reported(e) : pairs[m].half_life = 6

(***************************************************************************)
(* Claims about the metrics.                                               *)
(***************************************************************************)
\* C16: a zero denominator is reported as an undefined ratio, distinct from
\* any number: sharpe_ratio when the standard deviation of the returns is 0,
\* and profit_factor when no return is negative, are never infinity or NaN.
C16_UndefinedRatioExplicit ==
    pc = "cm_done" =>
        /\ Variance(locals.returns, 1) = F(0) =>
              ~RatioIsInf(metrics.sharpe_ratio) /\ ~RatioIsNaN(metrics.sharpe_ratio)
        /\ Negative(locals.returns) = <<>> =>
              ~IsInf(metrics.profit_factor) /\ ~IsNaN(metrics.profit_factor)

\* the largest equity up to row t, the first row included
RunningMaxEquity(t) ==
    CHOOSE v \in {portfolio.net_total[s] : s \in 1..t} :
        \A s \in 1..t : portfolio.net_total[s] <= v

\* (equity_t - running maximum) / running maximum
DrawdownAt(t) ==
    Frac(portfolio.net_total[t] - RunningMaxEquity(t), RunningMaxEquity(t))

\* C18: for a curve of at least two points max_drawdown is 100 times the
\* smallest (equity_t - max of equity up to t) / (that maximum), the first
\* equity value included in the maximum, and is never positive.
C18_MaxDrawdownFromFirst ==
    pc = "cm_done" =>
        /\ metrics.max_drawdown =
               FTimes(100, MinOn([t \in portfolio.index |-> DrawdownAt(t)],
                                 portfolio.index))
        /\ ~FPositive(metrics.max_drawdown)

(***************************************************************************)
(* Claims about the risk metrics.                                          *)
(***************************************************************************)
\* the excess returns of the call and the negative ones among them
ExcessReturns ==
    [t \in Index(data.returns) |-> FMinus(data.returns[t], data.target_return)]
NegativeExcess == SelectSeq(ExcessReturns, LAMBDA x : x.n < 0)

\* C17: the Sortino ratio is 0 when no excess return is negative, and else
\* the mean excess return over the root mean square of the negative excess
\* returns.
C17_SortinoZeroWithoutDownside ==
    pc = "rs_done" =>
        metrics.sortino_ratio =
            IF NegativeExcess = <<>> THEN RatioZero
            ELSE Ratio(Mean(ExcessReturns), Mean(FSquares(NegativeExcess)))

\* portfolio_returns = c * market_returns
Multiple(c) ==
    data.portfolio_returns = [t \in Index(data.market_returns) |->
                                 FTimes(c, data.market_returns[t])]

\* C19: covariance and variance have the same normalisation: for a market
\* series x of at least two returns that are not all equal,
\* calculate_beta(x, x) = 1 and calculate_beta(c * x, x) = c.
C19_BetaOfMultiple ==
    (/\ pc = "rb_done"
     /\ Len(data.market_returns) >= 2
     /\ \E s, t \in Index(data.market_returns) :
           data.market_returns[s] # data.market_returns[t]) =>
        \A c \in {1, 2} : Multiple(c) => metrics.beta = F(c)

(***************************************************************************)
(* Claims about calls in sequence.                                         *)
(***************************************************************************)
\* a step leaves the fields of the strategy and of the engine as they are,
\* and a step of a method leaves the tables passed to it as they are
FieldsAndArgumentsKept ==
    /\ strategy' = strategy
    /\ engine' = engine
    /\ (pc # "idle" /\ pc' # "idle") =>
          /\ data' = data
          /\ pc \in {"bt_start", "bt_holdings", "bt_cash", "bt_total", "bt_returns",
                     "bt_trades", "bt_commission", "bt_net_total", "bt_net_returns"}
                => signals' = signals
          /\ pc \in {"cm_start", "cm_metrics", "cm_var", "cm_cvar"}
                => portfolio' = portfolio

\* a call with the method and arguments of the first call returns what the
\* first call returned
SameCallSameResult ==
    (/\ pc \in Done
     /\ history # NoObject
     /\ history.method = pc
     /\ history.arguments = Arguments) => history.result = Result

\* C20: the core keeps no state between calls: no step of any sequence of
\* calls changes a field of the strategy or of the engine or a table passed
\* in, and a call with the same arguments returns the same result whatever
\* calls came before it.
C20_NoStateBetweenCalls == [][FieldsAndArgumentsKept]_vars /\ []SameCallSameResult

\* the first call is made again after another call has returned in between
C20_Witness ==
    /\ pc \in Done
    /\ history # NoObject
    /\ history.calls >= 2
    /\ history.method = pc
    /\ history.arguments = Arguments
    /\ history.result = Result


(***************************************************************************)
(* Claims about the half-life.                                             *)
(***************************************************************************)
Slope == locals.model.value
HalfLifeDone == pc = "hl_done"
\* the (lagged spread, spread difference) points of the argument
Points == IF Len(data.spread) = 0 THEN 0 ELSE Len(data.spread) - 1
Fitted == HalfLifeDone /\ Points >= 2 /\ Returned(locals.model) /\ ~IsNaN(Slope)

\* -ln(2) / slope truncated to an integer, for a slope below 0
Truncated(h, slope) ==
    /\ h * (Ln2Den * (-slope.n)) <= Ln2Num * slope.d
    /\ (h + 1) * (Ln2Den * (-slope.n)) > Ln2Num * slope.d

\* C21: calculate_half_life returns 30 when there are fewer than 2 points,
\* when the fitted slope is zero or positive, and on any internal error;
\* for a slope below 0 it returns -ln(2) / slope truncated to an integer and
\* floored at 1; so the result is always an integer of at least 1.
C21_HalfLifeDefaults ==
    HalfLifeDone =>
        /\ locals.returned \in Nat /\ locals.returned >= 1
        /\ Points < 2 => locals.returned = DefaultHalfLife
        /\ (Points >= 2 /\ ~Returned(locals.model)) =>
               locals.returned = DefaultHalfLife
        /\ (Points >= 2 /\ Returned(locals.model) /\ IsNaN(Slope)) =>
               locals.returned = DefaultHalfLife
        /\ (Fitted /\ Slope.n >= 0) => locals.returned = DefaultHalfLife
        /\ (Fitted /\ Slope.n < 0) =>
               \E h \in 0..locals.returned :
                   /\ Truncated(h, Slope)
                   /\ locals.returned = IF h > 1 THEN h ELSE 1

(***************************************************************************)
(* Claims about the financing of the ledger.                               *)
(***************************************************************************)
RECURSIVE Gained(_)
\* what the positions held over the steps up to row t have earned: the
\* position of the row before times the price move, in units of 1000
Gained(t) ==
    IF t <= 1 THEN 0
    ELSE Gained(t - 1)
             + Ledger.positions[t - 1] * (Ledger.price[t] - Ledger.price[t - 1])
                   * UnitSize

\* the value of the position the series starts with
Endowment == Ledger.positions[1] * Ledger.price[1] * UnitSize

\* C22 as stated: the ledger is self-financing from the initial capital: at
\* every timestamp total is initial_capital plus what the positions held
\* over the steps so far have earned, so total is initial_capital on the
\* first row.
C22_SelfFinancingFromCapital ==
    pc = "bt_done" =>
        \A t \in Ledger.index :
            Ledger.total[t] = engine.initial_capital + Gained(t)

\* C22: the ledger is self-financing from its first row on: at every
\* timestamp total is initial_capital plus the value of the first row's
\* position (which no cash was paid for) plus what the positions held over
\* the steps so far have earned; after the first row equity changes only
\* through price moves on the position held, never by opening or closing.
C22_SelfFinancing ==
    pc = "bt_done" =>
        \A t \in Ledger.index :
            Ledger.total[t] = engine.initial_capital + Endowment + Gained(t)

\* a returned ledger that starts with a position, earns on a price move and
\* later changes its position at a changed price
C22_Witness ==
    /\ pc = "bt_done"
    /\ Ledger.positions[1] # 0
    /\ \E s, t \in Ledger.index :
          /\ 1 < s /\ s < t
          /\ Gained(s) # 0
          /\ Ledger.positions[t] # Ledger.positions[t - 1]
          /\ Ledger.price[t] # Ledger.price[t - 1]

(***************************************************************************)
(* Claims about the data loader.                                           *)
(***************************************************************************)
\* the request the running call makes for a symbol
RequestOf(symbol) ==
    [symbol |-> symbol, start |-> locals.start_date, end |-> locals.end_date,
     interval |-> locals.interval]

\* C23: after any sequence of get_stock_data calls on one DataLoader, the
\* table returned for a symbol is the one downloaded for the start_date,
\* end_date and interval of that very call, never the data of an earlier
\* call.
C23_TableOfThisCall ==
    pc = "gs_done" =>
        \A symbol \in DOMAIN locals.data :
            locals.data[symbol].request = RequestOf(symbol)
====
